---- MODULE Spec2Model ----
(***************************************************************************)
(* Model of the accessibility tester's API route                           *)
(* (src/app/api/accessibility-test/route.ts): the colour utilities, the    *)
(* rule engine runAccessibilityChecks and the POST handler that fetches a  *)
(* page, runs the engine and shapes the report.                            *)
(*                                                                         *)
(* Strings are TLA+ strings; their characters are read with SubSeq, so     *)
(* trim, toLowerCase, startsWith and the regular expressions of the source *)
(* are computed character by character.  A document is the list of its     *)
(* elements in document (pre-order) order, which is the order in which     *)
(* querySelectorAll returns them, plus the page-level items the engine     *)
(* reads with querySelector / documentElement.                             *)
(***************************************************************************)
EXTENDS Integers, Sequences, FiniteSets, TLC

(***************************************************************************)
(* JavaScript values                                                       *)
(***************************************************************************)

\* null / undefined: what getAttribute returns for an attribute that is not
\* there, and what a failed match returns.
Null == "<null>"

\* !v for a string-or-null v: null and the empty string are falsy.
Falsy(v) == v = Null \/ v = ""

Truthy(v) == ~Falsy(v)

\* a || b on strings-or-null.
Or2(a, b) == IF Truthy(a) THEN a ELSE b

Ch(s, i) == SubSeq(s, i, i)

WhiteSpace == {" ", "\t", "\n"}

Digits == <<"0", "1", "2", "3", "4", "5", "6", "7", "8", "9">>

HexDigits == <<"0", "1", "2", "3", "4", "5", "6", "7", "8", "9", "a", "b", "c", "d", "e", "f">>

UpperCase == <<"A", "B", "C", "D", "E", "F", "G", "H", "I", "J", "K", "L", "M",
               "N", "O", "P", "Q", "R", "S", "T", "U", "V", "W", "X", "Y", "Z">>

LowerCase == <<"a", "b", "c", "d", "e", "f", "g", "h", "i", "j", "k", "l", "m",
               "n", "o", "p", "q", "r", "s", "t", "u", "v", "w", "x", "y", "z">>

IndexIn(seq, c) == IF \E i \in 1..Len(seq) : seq[i] = c
                   THEN CHOOSE i \in 1..Len(seq) : seq[i] = c
                   ELSE 0

IsDigit(c) == IndexIn(Digits, c) > 0

LowerChar(c) == IF IndexIn(UpperCase, c) > 0 THEN LowerCase[IndexIn(UpperCase, c)] ELSE c

RECURSIVE ToLowerFrom(_, _)
ToLowerFrom(s, i) == IF i > Len(s) THEN "" ELSE LowerChar(Ch(s, i)) \o ToLowerFrom(s, i + 1)

\* String.prototype.toLowerCase
ToLowerCase(s) == ToLowerFrom(s, 1)

RECURSIVE FirstNonSpace(_, _)
FirstNonSpace(s, i) == IF i > Len(s) \/ Ch(s, i) \notin WhiteSpace THEN i ELSE FirstNonSpace(s, i + 1)

RECURSIVE LastNonSpace(_, _)
LastNonSpace(s, i) == IF i < 1 \/ Ch(s, i) \notin WhiteSpace THEN i ELSE LastNonSpace(s, i - 1)

\* String.prototype.trim
Trim(s) == SubSeq(s, FirstNonSpace(s, 1), LastNonSpace(s, Len(s)))

\* x?.trim(): undefined when x is null.
TrimOpt(s) == IF s = Null THEN Null ELSE Trim(s)

\* s.substring(i - 1).startsWith(p), 1-based i
StartsWithAt(s, p, i) == i >= 1 /\ i + Len(p) - 1 <= Len(s) /\ SubSeq(s, i, i + Len(p) - 1) = p

StartsWith(s, p) == StartsWithAt(s, p, 1)

\* String.prototype.includes
Includes(s, p) == \E i \in 1..(Len(s) + 1) : StartsWithAt(s, p, i)

\* Array.prototype.includes
ArrIncludes(arr, v) == \E i \in 1..Len(arr) : arr[i] = v

\* End (exclusive) of the longest run of digits that starts at i.
RECURSIVE DigitsEnd(_, _)
DigitsEnd(s, i) == IF i <= Len(s) /\ IsDigit(Ch(s, i)) THEN DigitsEnd(s, i + 1) ELSE i

\* End (exclusive) of the longest run of white space that starts at i.
RECURSIVE SpaceEnd(_, _)
SpaceEnd(s, i) == IF i <= Len(s) /\ Ch(s, i) \in WhiteSpace THEN SpaceEnd(s, i + 1) ELSE i

\* End (exclusive) of the longest run of characters other than c that starts at i.
RECURSIVE RunEnd(_, _, _)
RunEnd(s, c, i) == IF i <= Len(s) /\ Ch(s, i) # c THEN RunEnd(s, c, i + 1) ELSE i

RECURSIVE ParseDec(_, _, _)
ParseDec(s, i, acc) == IF i > Len(s) \/ ~IsDigit(Ch(s, i)) THEN acc
                       ELSE ParseDec(s, i + 1, acc * 10 + (IndexIn(Digits, Ch(s, i)) - 1))

\* parseInt(s) of a string of decimal digits.
ParseInt(s) == ParseDec(s, 1, 0)

HexVal(c) == IndexIn(HexDigits, LowerChar(c)) - 1

IsHex(c) == HexVal(c) >= 0

\* parseInt(s, 16) of a two-digit hexadecimal string.
ParseHex2(s) == HexVal(Ch(s, 1)) * 16 + HexVal(Ch(s, 2))

(***************************************************************************)
(* Colour utilities                                                        *)
(***************************************************************************)

RGB(r, g, b) == [r |-> r, g |-> g, b |-> b]

\* No colour: the null that hexToRgb and parseColor return.
NoColor == [r |-> -1, g |-> -1, b |-> -1]

\* /^#?([a-f\d]{2})([a-f\d]{2})([a-f\d]{2})$/i
hexToRgb(hex) ==
    LET body == IF StartsWith(hex, "#") THEN SubSeq(hex, 2, Len(hex)) ELSE hex
    IN  IF Len(body) = 6 /\ \A i \in 1..6 : IsHex(Ch(body, i))
        THEN RGB(ParseHex2(SubSeq(body, 1, 2)), ParseHex2(SubSeq(body, 3, 4)),
                 ParseHex2(SubSeq(body, 5, 6)))
        ELSE NoColor

\* The match of /rgb\((\d+),\s*(\d+),\s*(\d+)\)/ that starts at position i, as
\* the three captured channels, or NoColor when there is none at i.
RgbMatchAt(s, i) ==
    IF ~StartsWithAt(s, "rgb(", i) THEN NoColor
    ELSE LET r1 == i + 4
             r2 == DigitsEnd(s, r1)
             g1 == SpaceEnd(s, r2 + 1)
             g2 == DigitsEnd(s, g1)
             b1 == SpaceEnd(s, g2 + 1)
             b2 == DigitsEnd(s, b1)
         IN  IF /\ r2 > r1 /\ Ch(s, r2) = ","
                /\ g2 > g1 /\ Ch(s, g2) = ","
                /\ b2 > b1 /\ Ch(s, b2) = ")"
             THEN RGB(ParseInt(SubSeq(s, r1, r2 - 1)), ParseInt(SubSeq(s, g1, g2 - 1)),
                      ParseInt(SubSeq(s, b1, b2 - 1)))
             ELSE NoColor

\* colorStr.match(/rgb\((\d+),\s*(\d+),\s*(\d+)\)/): the leftmost match.
RgbMatch(s) ==
    LET hits == {i \in 1..Len(s) : RgbMatchAt(s, i) # NoColor}
    IN  IF hits = {} THEN NoColor
        ELSE RgbMatchAt(s, CHOOSE i \in hits : \A j \in hits : i <= j)

namedColors(name) ==
    CASE name = "black"  -> RGB(0, 0, 0)
      [] name = "white"  -> RGB(255, 255, 255)
      [] name = "red"    -> RGB(255, 0, 0)
      [] name = "green"  -> RGB(0, 128, 0)
      [] name = "blue"   -> RGB(0, 0, 255)
      [] name = "yellow" -> RGB(255, 255, 0)
      [] name = "gray"   -> RGB(128, 128, 128)
      [] name = "grey"   -> RGB(128, 128, 128)
      [] OTHER           -> NoColor

parseColor(colorStr) ==
    IF StartsWith(colorStr, "#") THEN hexToRgb(colorStr)
    ELSE IF StartsWith(colorStr, "rgb") /\ RgbMatch(colorStr) # NoColor THEN RgbMatch(colorStr)
    ELSE namedColors(ToLowerCase(colorStr))

\* Fixed point: luminances are integers in units of 10^-5.
\* The sRGB transfer function of getLuminance for each 8-bit channel value c:
\* c/255/12.92 when c/255 <= 0.03928, ((c/255 + 0.055)/1.055)^2.4 otherwise,
\* times 10^5, rounded.  Entry c + 1 is the value for c.
Linear8 == <<
    0, 30, 61, 91, 121, 152, 182, 212, 243, 273, 304, 335, 368, 402, 439, 478,
    518, 561, 605, 651, 700, 750, 802, 857, 913, 972, 1033, 1096, 1161, 1229, 1298, 1370,
    1444, 1521, 1600, 1681, 1764, 1850, 1938, 2029, 2122, 2217, 2315, 2416, 2519, 2624, 2732, 2843,
    2956, 3071, 3190, 3310, 3434, 3560, 3689, 3820, 3955, 4092, 4231, 4374, 4519, 4667, 4817, 4971,
    5127, 5286, 5448, 5613, 5781, 5951, 6125, 6301, 6480, 6663, 6848, 7036, 7227, 7421, 7619, 7819,
    8022, 8228, 8438, 8650, 8866, 9084, 9306, 9531, 9759, 9990, 10224, 10462, 10702, 10946, 11193, 11444,
    11697, 11954, 12214, 12477, 12744, 13014, 13287, 13563, 13843, 14126, 14413, 14703, 14996, 15293, 15593, 15896,
    16203, 16513, 16827, 17144, 17465, 17789, 18116, 18447, 18782, 19120, 19462, 19807, 20156, 20508, 20864, 21223,
    21586, 21953, 22323, 22697, 23074, 23455, 23840, 24228, 24620, 25016, 25415, 25818, 26225, 26636, 27050, 27468,
    27889, 28315, 28744, 29177, 29614, 30054, 30499, 30947, 31399, 31855, 32314, 32778, 33245, 33716, 34191, 34670,
    35153, 35640, 36131, 36625, 37124, 37626, 38133, 38643, 39157, 39676, 40198, 40724, 41254, 41789, 42327, 42869,
    43415, 43966, 44520, 45079, 45641, 46208, 46778, 47353, 47932, 48515, 49102, 49693, 50289, 50888, 51492, 52100,
    52712, 53328, 53948, 54572, 55201, 55834, 56471, 57112, 57758, 58408, 59062, 59720, 60383, 61050, 61721, 62396,
    63076, 63760, 64448, 65141, 65837, 66539, 67244, 67954, 68669, 69387, 70110, 70838, 71569, 72306, 73046, 73791,
    74540, 75294, 76052, 76815, 77582, 78354, 79130, 79910, 80695, 81485, 82279, 83077, 83880, 84687, 85499, 86316,
    87137, 87962, 88792, 89627, 90466, 91310, 92158, 93011, 93869, 94731, 95597, 96469, 97345, 98225, 99110, 100000 >>

\* The same function for the channel values 256..300, which rgb(...) can
\* carry: entry c - 255 is the value for c.
LinearOver == <<
    100894, 101794, 102697, 103606, 104519, 105436, 106359, 107286, 108218, 109154, 110096, 111042, 111992, 112948, 113908, 114873,
    115842, 116817, 117796, 118780, 119769, 120762, 121760, 122763, 123771, 124784, 125801, 126824, 127851, 128883, 129920, 130962,
    132008, 133060, 134116, 135177, 136243, 137314, 138390, 139470, 140556, 141647, 142742, 143843, 144948 >>

\* The R, G or B of getLuminance for the channel value c (c <= 300).
Linearize(c) == IF c <= 255 THEN Linear8[c + 1] ELSE LinearOver[c - 255]

\* Mutant: the green coefficient is 0.7512.
getLuminance_Coefficient(r, g, b) ==
    (2126 * Linearize(r) + 7512 * Linearize(g) + 722 * Linearize(b)) \div 10000

\* 0.2126 * R + 0.7152 * G + 0.0722 * B, in units of 10^-5.
getLuminance(r, g, b) ==
    (2126 * Linearize(r) + 7152 * Linearize(g) + 722 * Linearize(b)) \div 10000

Max2(a, b) == IF a >= b THEN a ELSE b

Min2(a, b) == IF a <= b THEN a ELSE b

\* Mutant: the first luminance over the second, whichever is brighter.
getContrastRatio_Ordered(color1, color2) ==
    LET lum1 == getLuminance(color1.r, color1.g, color1.b)
        lum2 == getLuminance(color2.r, color2.g, color2.b)
    IN  [num |-> lum1 + 5000, den |-> lum2 + 5000]

\* (brightest + 0.05) / (darkest + 0.05) as the fraction num / den.
getContrastRatio(color1, color2) ==
    LET lum1 == getLuminance(color1.r, color1.g, color1.b)
        lum2 == getLuminance(color2.r, color2.g, color2.b)
    IN  [num |-> Max2(lum1, lum2) + 5000, den |-> Min2(lum1, lum2) + 5000]

\* ratio < tenths / 10
RatioBelow(ratio, tenths) == ratio.num * 10 < tenths * ratio.den

(***************************************************************************)
(* Documents                                                               *)
(***************************************************************************)

\* An element: its tag name, the attributes the engine reads (Null when the
\* attribute is absent), its textContent, and for a table the number of th
\* descendants and whether it has a caption descendant.
NoAttrs == [type |-> Null, alt |-> Null, id |-> Null, for |-> Null, name |-> Null,
            ariaLabel |-> Null, ariaLabelledby |-> Null, placeholder |-> Null,
            title |-> Null, value |-> Null, href |-> Null,
            style |-> Null, text |-> "", th |-> 0, caption |-> FALSE]

Attrs == DOMAIN NoAttrs

El(tag, given) == [a \in Attrs \cup {"tag"} |->
                     IF a = "tag" THEN tag
                     ELSE IF a \in DOMAIN given THEN given[a] ELSE NoAttrs[a]]

\* element.getAttribute(name)
getAttribute(e, name) == e[name]

\* element.textContent?.trim() (textContent of an element is never null)
trimmedText(e) == Trim(e.text)

\* element.tagName.toLowerCase()
tagName(e) == e.tag

\* A document: whether it has a documentElement, the lang attribute of that
\* element (Null: absent) and the elements below it in document order.
Doc(lang, body) == [root |-> TRUE, lang |-> lang, body |-> body]

\* A Document without a root: documentElement is null and no selector matches.
NoRootDoc == [root |-> FALSE, lang |-> Null, body |-> << >>]

\* Mutant: the elements are visited last to first.
RECURSIVE SetToSortedSeq_Desc(_)
SetToSortedSeq_Desc(S) ==
    IF S = {} THEN <<>>
    ELSE LET m == CHOOSE x \in S : \A y \in S : x >= y
         IN  <<m>> \o SetToSortedSeq_Desc(S \ {m})

RECURSIVE SetToSortedSeq(_)
SetToSortedSeq(S) ==
    IF S = {} THEN <<>>
    ELSE LET m == CHOOSE x \in S : \A y \in S : x <= y
         IN  <<m>> \o SetToSortedSeq(S \ {m})

\* The positions of the elements of a document.
Positions(doc) == 1..Len(doc.body)

\* document.querySelectorAll(selector), given the set of positions of the
\* elements that match the selector: those positions in document order.
querySelectorAll(matches) == SetToSortedSeq(matches)

\* document.querySelector(selector), given the same: the first position that
\* matches, 0 for null.
querySelector(matches) == IF matches = {} THEN 0 ELSE querySelectorAll(matches)[1]

\* A finding (AccessibilityNode).  node is the position in the document of
\* the element whose outerHTML the finding carries (0: a fixed string, not an
\* element of the list); target is the selector `tag` (nth = 0) or
\* `tag:nth-child(nth)`.
Node(node, tag, nth) == [node |-> node, target |-> [tag |-> tag, nth |-> nth]]

\* Mutant: the placeholder violation is pushed under the id of the label one.
Violation_Relabel(id, nodes) ==
    [id |-> IF id = "placeholder-as-label" THEN "label" ELSE id, nodes |-> nodes]

Violation(id, nodes) == [id |-> id, nodes |-> nodes]

Pass(id) == [id |-> id]

\* list.forEach((x, index) => { if (...) out.push(...) }): out afterwards,
\* where hits are the indexes whose iteration pushes and make[i] is what
\* iteration i pushes.  The 0-based index of the source is 1-based here.
ForEachPush(hits, make) ==
    LET idx == SetToSortedSeq(hits)
    IN  [k \in 1..Len(idx) |-> make[idx[k]]]

\* if (cond) violations.push(v)
PushIf(cond, v) == IF cond THEN <<v>> ELSE <<>>

\* Mutant: slice(-n), the last n entries.
SliceTo_Last(arr, n) == SubSeq(arr, Len(arr) - Min2(n, Len(arr)) + 1, Len(arr))

\* arr.slice(0, n)
SliceTo(arr, n) == SubSeq(arr, 1, Min2(n, Len(arr)))

\* arr.slice(1)
SliceFrom1(arr) == SubSeq(arr, 2, Len(arr))

(***************************************************************************)
(* runAccessibilityChecks                                                  *)
(***************************************************************************)

\* Check 1: images
IsImg(e) == e.tag = "img"

images(doc) == querySelectorAll({p \in Positions(doc) : IsImg(doc.body[p])})

\* Mutant: !alt instead of alt === null, so alt="" is reported too.
imagesWithoutAlt_Falsy(doc) ==
    LET l == images(doc)
        hit(i) ==
            Falsy(getAttribute(doc.body[l[i]], "alt"))
    IN  ForEachPush({i \in 1..Len(l) : hit(i)},
                    [i \in 1..Len(l) |-> Node(l[i], "img", i)])

imagesWithoutAlt(doc) ==
    LET l == images(doc)
        hit(i) ==
            getAttribute(doc.body[l[i]], "alt") = Null
    IN  ForEachPush({i \in 1..Len(l) : hit(i)},
                    [i \in 1..Len(l) |-> Node(l[i], "img", i)])

\* Check 2: form elements
IsFormElement(e) == e.tag \in {"input", "textarea", "select"}

formElements(doc) == querySelectorAll({p \in Positions(doc) : IsFormElement(doc.body[p])})

SkippedInputTypes == <<"hidden", "submit", "button", "reset", "image">>

\* const type = element.getAttribute('type') || 'text'; the early return
skipsLabelCheck(e) == ArrIncludes(SkippedInputTypes, Or2(getAttribute(e, "type"), "text"))

\* `label[for="${id}"]`
labelSelector(id) == "label[for=\"" \o id \o "\"]"

\* What the selector engine makes of that string: the value the for
\* attribute is compared with, which is the text between the first two double
\* quotes when "]" alone follows the second; Null when the string is not a
\* selector, on which querySelector throws a SyntaxError.  (Backslash escapes
\* are not interpreted: the ids of the pages below hold none.)
labelSelectorValue(sel) ==
    LET from == Len("label[for=\"") + 1
        end  == RunEnd(sel, "\"", from)
    IN  IF StartsWith(sel, "label[for=\"") /\ SubSeq(sel, end, Len(sel)) = "\"]"
        THEN SubSeq(sel, from, end - 1)
        ELSE Null

\* The evaluation of hasLabel for e throws.
labelThrows(e) ==
    /\ Truthy(getAttribute(e, "id"))
    /\ labelSelectorValue(labelSelector(getAttribute(e, "id"))) = Null

\* id && document.querySelector(`label[for="${id}"]`)
hasLabel(doc, e) ==
    LET value == labelSelectorValue(labelSelector(getAttribute(e, "id")))
    IN  /\ Truthy(getAttribute(e, "id"))
        /\ value # Null
        /\ querySelector({p \in Positions(doc) :
                /\ doc.body[p].tag = "label"
                /\ getAttribute(doc.body[p], "for") # Null
                /\ getAttribute(doc.body[p], "for") = value}) # 0

\* !hasLabel && !hasAriaLabel && !hasAriaLabelledby
unlabelled(doc, e) ==
    /\ ~hasLabel(doc, e)
    /\ Falsy(getAttribute(e, "ariaLabel"))
    /\ Falsy(getAttribute(e, "ariaLabelledby"))

\* Mutant: the ordinal counts only the form elements that are not skipped.
elementsWithoutLabels_Filtered(doc) ==
    LET l == formElements(doc)
        hit(i) ==
            ~skipsLabelCheck(doc.body[l[i]]) /\ unlabelled(doc, doc.body[l[i]])
        kept(i) == Cardinality({j \in 1..i : ~skipsLabelCheck(doc.body[l[j]])})
    IN  ForEachPush({i \in 1..Len(l) : hit(i)},
                    [i \in 1..Len(l) |-> Node(l[i], tagName(doc.body[l[i]]), kept(i))])

\* The form elements the forEach does not return early on, as 1-based
\* indexes into formElements.
elementsWithoutLabels(doc) ==
    LET l == formElements(doc)
        hit(i) ==
            ~skipsLabelCheck(doc.body[l[i]]) /\ unlabelled(doc, doc.body[l[i]])
    IN  ForEachPush({i \in 1..Len(l) : hit(i)},
                    [i \in 1..Len(l) |-> Node(l[i], tagName(doc.body[l[i]]), i)])

elementsWithPoorLabels(doc) ==
    LET l == formElements(doc)
        hit(i) ==
            /\ ~skipsLabelCheck(doc.body[l[i]])
            /\ Truthy(getAttribute(doc.body[l[i]], "placeholder"))
            /\ unlabelled(doc, doc.body[l[i]])
    IN  ForEachPush({i \in 1..Len(l) : hit(i)},
                    [i \in 1..Len(l) |-> Node(l[i], tagName(doc.body[l[i]]), i)])

\* Check 3: buttons
ButtonInputTypes == {"button", "submit", "reset"}

\* button, input[type="button"], input[type="submit"], input[type="reset"]
IsButton(e) == e.tag = "button" \/ (e.tag = "input" /\ getAttribute(e, "type") \in ButtonInputTypes)

buttons(doc) == querySelectorAll({p \in Positions(doc) : IsButton(doc.body[p])})

\* Mutant: aria-label is looked at before value.
buttonAccessibleText_AriaFirst(e) ==
    Or2(trimmedText(e),
        Or2(getAttribute(e, "ariaLabel"),
            Or2(TrimOpt(getAttribute(e, "value")), getAttribute(e, "title"))))

\* text || value || ariaLabel || title
buttonAccessibleText(e) ==
    Or2(trimmedText(e),
        Or2(TrimOpt(getAttribute(e, "value")),
            Or2(getAttribute(e, "ariaLabel"), getAttribute(e, "title"))))

PoorButtonTexts == <<"click", "here", "more", "link", "button">>

buttonsWithoutText(doc) ==
    LET l == buttons(doc)
        hit(i) ==
            Falsy(buttonAccessibleText(doc.body[l[i]]))
    IN  ForEachPush({i \in 1..Len(l) : hit(i)},
                    [i \in 1..Len(l) |-> Node(l[i], "button", i)])

buttonsWithPoorText(doc) ==
    LET l == buttons(doc)
        hit(i) ==
            /\ Truthy(buttonAccessibleText(doc.body[l[i]]))
            /\ ArrIncludes(PoorButtonTexts,
                           ToLowerCase(buttonAccessibleText(doc.body[l[i]])))
    IN  ForEachPush({i \in 1..Len(l) : hit(i)},
                    [i \in 1..Len(l) |-> Node(l[i], "button", i)])

\* Check 4: links
IsLink(e) == e.tag = "a" /\ getAttribute(e, "href") # Null

links(doc) == querySelectorAll({p \in Positions(doc) : IsLink(doc.body[p])})

\* text || ariaLabel || title
linkAccessibleText(e) ==
    Or2(trimmedText(e), Or2(getAttribute(e, "ariaLabel"), getAttribute(e, "title")))

PoorLinkPhrases == <<"click here", "here", "more", "read more", "link", "continue">>

linksWithoutText(doc) ==
    LET l == links(doc)
        hit(i) ==
            Falsy(linkAccessibleText(doc.body[l[i]]))
    IN  ForEachPush({i \in 1..Len(l) : hit(i)},
                    [i \in 1..Len(l) |-> Node(l[i], "a", i)])

linksWithPoorText(doc) ==
    LET l == links(doc)
        hit(i) ==
            /\ Truthy(linkAccessibleText(doc.body[l[i]]))
            /\ ArrIncludes(PoorLinkPhrases,
                           ToLowerCase(linkAccessibleText(doc.body[l[i]])))
    IN  ForEachPush({i \in 1..Len(l) : hit(i)},
                    [i \in 1..Len(l) |-> Node(l[i], "a", i)])

\* linkTexts.set(key, value) on a Map held as a function
MapSet(map, key, value) == [k \in DOMAIN map \cup {key} |-> IF k = key THEN value ELSE map[k]]

\* Mutant: a conflicting link replaces the href kept for its text.
linkStep_Overwrites(doc, l, i, st) ==
    LET e == doc.body[l[i]]
        accessibleText == linkAccessibleText(e)
        href == getAttribute(e, "href")
    IN  IF Falsy(accessibleText) THEN st
        ELSE IF accessibleText \in DOMAIN st.linkTexts
             THEN IF st.linkTexts[accessibleText] # href
                  THEN [st EXCEPT !.linksWithSameText = Append(@, Node(l[i], "a", i)),
                                  !.linkTexts = MapSet(@, accessibleText, href)]
                  ELSE st
             ELSE [st EXCEPT !.linkTexts = MapSet(@, accessibleText, href)]

\* One iteration of links.forEach on the state [linkTexts, linksWithSameText]
linkStep(doc, l, i, st) ==
    LET e == doc.body[l[i]]
        accessibleText == linkAccessibleText(e)
        href == getAttribute(e, "href")
    IN  IF Falsy(accessibleText) THEN st
        ELSE IF accessibleText \in DOMAIN st.linkTexts
             THEN IF st.linkTexts[accessibleText] # href
                  THEN [st EXCEPT !.linksWithSameText = Append(@, Node(l[i], "a", i))]
                  ELSE st
             ELSE [st EXCEPT !.linkTexts = MapSet(@, accessibleText, href)]

RECURSIVE linkScan(_, _, _)
linkScan(doc, l, n) ==
    IF n = 0 THEN [linkTexts |-> << >>, linksWithSameText |-> << >>]
    ELSE linkStep(doc, l, n, linkScan(doc, l, n - 1))

\* linkTexts after the loop
linkTexts(doc) == linkScan(doc, links(doc), Len(links(doc))).linkTexts

\* linksWithSameText after the loop
linksWithSameText(doc) == linkScan(doc, links(doc), Len(links(doc))).linksWithSameText

\* Check 5: colour contrast
TextTags == {"p", "h1", "h2", "h3", "h4", "h5", "h6", "span", "div", "a", "button", "label", "li"}

IsTextElement(e) == e.tag \in TextTags

textElements(doc) == querySelectorAll({p \in Positions(doc) : IsTextElement(doc.body[p])})

\* The capture of prop \s* ([^;]+) when prop starts at position i of s:
\* the run of characters other than ";" after prop, without its leading
\* white space (with its last character when it is all white space), or
\* Null when that run is empty.
DeclCaptureAt(s, prop, i) ==
    LET from == i + Len(prop)
        end  == RunEnd(s, ";", from)
        sp   == SpaceEnd(s, from)
    IN  IF ~StartsWithAt(s, prop, i) \/ end = from THEN Null
        ELSE IF sp < end THEN SubSeq(s, sp, end - 1)
        ELSE SubSeq(s, end - 1, end - 1)

\* s.match(/prop\s*([^;]+)/)[1] for the leftmost match, Null without a match.
DeclCapture(s, prop) ==
    LET hits == {i \in 1..Len(s) : StartsWithAt(s, prop, i) /\ DeclCaptureAt(s, prop, i) # Null}
    IN  IF hits = {} THEN Null
        ELSE DeclCaptureAt(s, prop, CHOOSE i \in hits : \A j \in hits : i <= j)

\* The capture of /font-size:\s*(\d+)px/ when it matches at position i.
FontSizeAt(s, i) ==
    LET sp == SpaceEnd(s, i + Len("font-size:"))
        de == DigitsEnd(s, sp)
    IN  IF StartsWithAt(s, "font-size:", i) /\ de > sp /\ StartsWithAt(s, "px", de)
        THEN SubSeq(s, sp, de - 1)
        ELSE Null

\* (style.match(/font-size:\s*(\d+)px/) || ['', '14'])[1]
FontSizeCapture(s) ==
    LET hits == {i \in 1..Len(s) : FontSizeAt(s, i) # Null}
    IN  IF hits = {} THEN "14"
        ELSE FontSizeAt(s, CHOOSE i \in hits : \A j \in hits : i <= j)

\* element.getAttribute('style') || ''
computedStyle(e) == Or2(getAttribute(e, "style"), "")

\* parseInt(fontSize[1]) || 14
fontSizeOf(e) ==
    LET n == ParseInt(FontSizeCapture(computedStyle(e))) IN IF n = 0 THEN 14 ELSE n

isLargeText(e) ==
    LET size == fontSizeOf(e)
    IN  size >= 18 \/ (size >= 14 /\ Includes(computedStyle(e), "font-weight: bold"))

\* minContrast, in tenths: 3 or 4.5
minContrast(e) == IF isLargeText(e) THEN 30 ELSE 45

colorMatch(e) == DeclCapture(computedStyle(e), "color:")

bgColorMatch(e) == DeclCapture(computedStyle(e), "background-color:")

\* The body of textElements.forEach pushes a contrast issue for e.
hasContrastIssue(e) ==
    LET cm        == colorMatch(e)
        bm        == bgColorMatch(e)
        textColor == parseColor(Trim(cm))
        bgColor   == parseColor(Trim(bm))
    IN  /\ Truthy(trimmedText(e))
        /\ cm # Null /\ bm # Null
        /\ textColor # NoColor /\ bgColor # NoColor
        /\ RatioBelow(getContrastRatio(textColor, bgColor), minContrast(e))

contrastIssues(doc) ==
    LET l == textElements(doc)
        hit(i) ==
            hasContrastIssue(doc.body[l[i]])
    IN  ForEachPush({i \in 1..Len(l) : hit(i)},
                    [i \in 1..Len(l) |-> Node(l[i], tagName(doc.body[l[i]]), i)])

ContrastCap == 10

\* Check 6: page structure
IsTitle(e) == e.tag = "title"

\* document.querySelector('title')
title(doc) == querySelector({p \in Positions(doc) : IsTitle(doc.body[p])})

\* !title || !title.textContent?.trim()
titleMissing(doc) == title(doc) = 0 \/ Falsy(trimmedText(doc.body[title(doc)]))

IsH1(e) == e.tag = "h1"

h1s(doc) == querySelectorAll({p \in Positions(doc) : IsH1(doc.body[p])})

\* Mutant: the first h1 is flagged with the others.
multipleH1Nodes_All(doc) ==
    LET rest == h1s(doc)
    IN  [k \in 1..Len(rest) |-> Node(rest[k], "h1", k + 1)]

\* Array.from(h1s).slice(1).map((h1, index) => ...)
multipleH1Nodes(doc) ==
    LET rest == SliceFrom1(h1s(doc))
    IN  [k \in 1..Len(rest) |-> Node(rest[k], "h1", k + 1)]

\* Mutant: only a page without the attribute lacks a language.
langMissing_Absent(doc) == doc.lang = Null

\* !htmlElement.getAttribute('lang')
langMissing(doc) == Falsy(doc.lang)

\* meta[name="viewport"]
IsMetaViewport(e) == e.tag = "meta" /\ getAttribute(e, "name") = "viewport"

\* !metaViewport
viewportMissing(doc) == querySelector({p \in Positions(doc) : IsMetaViewport(doc.body[p])}) = 0

\* Check 7: headings
HeadingTags == {"h1", "h2", "h3", "h4", "h5", "h6"}

IsHeading(e) == e.tag \in HeadingTags

headings(doc) == querySelectorAll({p \in Positions(doc) : IsHeading(doc.body[p])})

\* parseInt(heading.tagName.charAt(1))
headingLevel(e) == ParseInt(Ch(e.tag, 2))

\* headingLevels after the loop
headingLevels(doc) == [i \in 1..Len(headings(doc)) |-> headingLevel(doc.body[headings(doc)[i]])]

\* Mutant: a jump of more than one level in either direction is flagged.
skipsLevel_Abs(levels, i) ==
    i > 1 /\ (levels[i] > levels[i - 1] + 1 \/ levels[i - 1] > levels[i] + 1)

\* index > 0 and level > previous + 1 for the heading at 1-based index i
skipsLevel(levels, i) == i > 1 /\ levels[i] > levels[i - 1] + 1

skippedHeadings(doc) ==
    LET l == headings(doc)
        hit(i) ==
            skipsLevel(headingLevels(doc), i)
    IN  ForEachPush({i \in 1..Len(l) : hit(i)},
                    [i \in 1..Len(l) |-> Node(l[i], tagName(doc.body[l[i]]), 0)])

emptyHeadings(doc) ==
    LET l == headings(doc)
        hit(i) ==
            Falsy(trimmedText(doc.body[l[i]]))
    IN  ForEachPush({i \in 1..Len(l) : hit(i)},
                    [i \in 1..Len(l) |-> Node(l[i], tagName(doc.body[l[i]]), 0)])

\* Check 8: tables
IsTable(e) == e.tag = "table"

tables(doc) == querySelectorAll({p \in Positions(doc) : IsTable(doc.body[p])})

tablesWithoutHeaders(doc) ==
    LET l == tables(doc)
        hit(i) ==
            doc.body[l[i]].th = 0
    IN  ForEachPush({i \in 1..Len(l) : hit(i)},
                    [i \in 1..Len(l) |-> Node(l[i], "table", i)])

tablesWithoutCaption(doc) ==
    LET l == tables(doc)
        hit(i) ==
            ~doc.body[l[i]].caption
    IN  ForEachPush({i \in 1..Len(l) : hit(i)},
                    [i \in 1..Len(l) |-> Node(l[i], "table", i)])

\* The pushes of checks 1 to 5, in the order of the source.
elementViolations(doc) ==
    LET noAlt       == imagesWithoutAlt(doc)
        noLabel     == elementsWithoutLabels(doc)
        poorLabel   == elementsWithPoorLabels(doc)
        noBtnText   == buttonsWithoutText(doc)
        poorBtnText == buttonsWithPoorText(doc)
        noLinkText  == linksWithoutText(doc)
        poorLink    == linksWithPoorText(doc)
        contrast    == contrastIssues(doc)
    IN     PushIf(Len(noAlt) > 0, Violation("image-alt", noAlt))
        \o PushIf(Len(noLabel) > 0, Violation("label", noLabel))
        \o PushIf(Len(poorLabel) > 0, Violation("placeholder-as-label", poorLabel))
        \o PushIf(Len(noBtnText) > 0, Violation("button-name", noBtnText))
        \o PushIf(Len(poorBtnText) > 0, Violation("button-text-quality", poorBtnText))
        \o PushIf(Len(noLinkText) > 0, Violation("link-name", noLinkText))
        \o PushIf(Len(poorLink) > 0, Violation("link-text-quality", poorLink))
        \o PushIf(Len(contrast) > 0, Violation("color-contrast", SliceTo(contrast, ContrastCap)))

\* The pushes of check 6.
structureViolations(doc) ==
    LET nH1 == Len(h1s(doc))
    IN     PushIf(titleMissing(doc), Violation("document-title", <<Node(title(doc), "title", 0)>>))
        \o PushIf(nH1 = 0, Violation("page-has-heading-one", <<Node(0, "body", 0)>>))
        \o PushIf(nH1 > 1, Violation("multiple-h1", multipleH1Nodes(doc)))
        \o PushIf(langMissing(doc), Violation("html-has-lang", <<Node(0, "html", 0)>>))
        \o PushIf(viewportMissing(doc), Violation("meta-viewport", <<Node(0, "head", 0)>>))

\* Mutant: the tables without a caption are reported.
headingAndTableViolations_Caption(doc) ==
    LET skipped   == skippedHeadings(doc)
        empty     == emptyHeadings(doc)
        noHeaders == tablesWithoutHeaders(doc)
        noCaption == tablesWithoutCaption(doc)
    IN     PushIf(Len(skipped) > 0, Violation("heading-order", skipped))
        \o PushIf(Len(empty) > 0, Violation("empty-heading", empty))
        \o PushIf(Len(noHeaders) > 0, Violation("table-headers", noHeaders))
        \o PushIf(Len(noCaption) > 0, Violation("table-caption", noCaption))

\* The pushes of checks 7 and 8.
headingAndTableViolations(doc) ==
    LET skipped   == skippedHeadings(doc)
        empty     == emptyHeadings(doc)
        noHeaders == tablesWithoutHeaders(doc)
    IN     PushIf(Len(skipped) > 0, Violation("heading-order", skipped))
        \o PushIf(Len(empty) > 0, Violation("empty-heading", empty))
        \o PushIf(Len(noHeaders) > 0, Violation("table-headers", noHeaders))

\* Mutant: the page-structure check runs before the element checks.
violationsOf_Swapped(doc) ==
    structureViolations(doc) \o elementViolations(doc) \o headingAndTableViolations(doc)

\* The violations array when the function returns.
violationsOf(doc) ==
    elementViolations(doc) \o structureViolations(doc) \o headingAndTableViolations(doc)

\* Mutant: the image and form passes need more than one element.
passChecks_Strict(doc) ==
       PushIf(Len(images(doc)) > 1 /\ Len(imagesWithoutAlt(doc)) = 0, Pass("image-alt"))
    \o PushIf(~titleMissing(doc), Pass("document-title"))
    \o PushIf(Truthy(doc.lang), Pass("html-has-lang"))
    \o PushIf(Len(h1s(doc)) = 1, Pass("page-has-heading-one"))
    \o PushIf(~viewportMissing(doc), Pass("meta-viewport"))
    \o PushIf(Len(formElements(doc)) > 1 /\ Len(elementsWithoutLabels(doc)) = 0, Pass("form-labels"))
    \o PushIf(Len(buttons(doc)) > 0 /\ Len(buttonsWithoutText(doc)) = 0, Pass("button-names"))
    \o PushIf(Len(links(doc)) > 0 /\ Len(linksWithoutText(doc)) = 0, Pass("link-names"))
    \o PushIf(Len(headings(doc)) > 0 /\ Len(skippedHeadings(doc)) = 0, Pass("heading-structure"))

\* Mutant: the passes look only at whether elements exist, not at the findings.
passChecks_Eager(doc) ==
       PushIf(Len(images(doc)) > 0, Pass("image-alt"))
    \o PushIf(~titleMissing(doc), Pass("document-title"))
    \o PushIf(Truthy(doc.lang), Pass("html-has-lang"))
    \o PushIf(Len(h1s(doc)) >= 1, Pass("page-has-heading-one"))
    \o PushIf(~viewportMissing(doc), Pass("meta-viewport"))
    \o PushIf(Len(formElements(doc)) > 0, Pass("form-labels"))
    \o PushIf(Len(buttons(doc)) > 0, Pass("button-names"))
    \o PushIf(Len(links(doc)) > 0, Pass("link-names"))
    \o PushIf(Len(headings(doc)) > 0, Pass("heading-structure"))

\* passChecks.forEach(check => { if (check.condition) passes.push(...) })
passChecks(doc) ==
       PushIf(Len(images(doc)) > 0 /\ Len(imagesWithoutAlt(doc)) = 0, Pass("image-alt"))
    \o PushIf(~titleMissing(doc), Pass("document-title"))
    \o PushIf(Truthy(doc.lang), Pass("html-has-lang"))
    \o PushIf(Len(h1s(doc)) = 1, Pass("page-has-heading-one"))
    \o PushIf(~viewportMissing(doc), Pass("meta-viewport"))
    \o PushIf(Len(formElements(doc)) > 0 /\ Len(elementsWithoutLabels(doc)) = 0, Pass("form-labels"))
    \o PushIf(Len(buttons(doc)) > 0 /\ Len(buttonsWithoutText(doc)) = 0, Pass("button-names"))
    \o PushIf(Len(links(doc)) > 0 /\ Len(linksWithoutText(doc)) = 0, Pass("link-names"))
    \o PushIf(Len(headings(doc)) > 0 /\ Len(skippedHeadings(doc)) = 0, Pass("heading-structure"))

\* Mutant: the empty headings are filed as incomplete.
runAccessibilityChecks_Incomplete(doc) ==
    [violations |-> violationsOf(doc), passes |-> passChecks(doc),
     incomplete |-> PushIf(Len(emptyHeadings(doc)) > 0, Violation("empty-heading", emptyHeadings(doc)))]

\* The value runAccessibilityChecks returns, when it returns.
runAccessibilityChecks(doc) ==
    [violations |-> violationsOf(doc), passes |-> passChecks(doc), incomplete |-> << >>]

Error(name, message) == [name |-> name, message |-> message]

NoError == Error(Null, Null)

\* The form elements whose label lookup throws.
throwingFormElements(doc) ==
    {p \in Positions(doc) : /\ IsFormElement(doc.body[p])
                            /\ ~skipsLabelCheck(doc.body[p])
                            /\ labelThrows(doc.body[p])}

\* The exception that ends runAccessibilityChecks before it returns, NoError
\* when it returns: the SyntaxError of the first label lookup with a string
\* that is not a selector (check 2), or the TypeError of
\* htmlElement.getAttribute on a document without a root (check 6).
thrownBy(doc) ==
    IF throwingFormElements(doc) # {}
    THEN Error("SyntaxError",
               "'" \o labelSelector(getAttribute(doc.body[querySelector(throwingFormElements(doc))], "id"))
                   \o "' is not a valid selector")
    ELSE IF ~doc.root
    THEN Error("TypeError", "Cannot read properties of null (reading 'getAttribute')")
    ELSE NoError

(***************************************************************************)
(* The reduced rule engine (the second runAccessibilityChecks)             *)
(***************************************************************************)

\* Mutant: !img.getAttribute('alt') alone, so alt="" is reported.
imagesWithoutAltReduced_Falsy(doc) ==
    LET l == images(doc)
        hit(i) ==
            Falsy(getAttribute(doc.body[l[i]], "alt"))
    IN  ForEachPush({i \in 1..Len(l) : hit(i)},
                    [i \in 1..Len(l) |-> Node(l[i], "img", i)])

\* !img.getAttribute('alt') && img.getAttribute('alt') !== ''
imagesWithoutAltReduced(doc) ==
    LET l == images(doc)
        hit(i) ==
            /\ Falsy(getAttribute(doc.body[l[i]], "alt"))
            /\ getAttribute(doc.body[l[i]], "alt") # ""
    IN  ForEachPush({i \in 1..Len(l) : hit(i)},
                    [i \in 1..Len(l) |-> Node(l[i], "img", i)])

ReducedInputTypes == {"text", "email", "password", "tel", "url"}

\* input[type="text"], input[type="email"], input[type="password"],
\* input[type="tel"], input[type="url"], textarea; the value of type is
\* compared without regard to case, and an input without the attribute
\* matches none of the five.
IsReducedInput(e) ==
    \/ e.tag = "textarea"
    \/ /\ e.tag = "input"
       /\ getAttribute(e, "type") # Null
       /\ ToLowerCase(getAttribute(e, "type")) \in ReducedInputTypes

inputs(doc) == querySelectorAll({p \in Positions(doc) : IsReducedInput(doc.body[p])})

inputsWithoutLabels(doc) ==
    LET l == inputs(doc)
        hit(i) ==
            unlabelled(doc, doc.body[l[i]])
    IN  ForEachPush({i \in 1..Len(l) : hit(i)},
                    [i \in 1..Len(l) |-> Node(l[i], "input", i)])

\* !text && !ariaLabel && !ariaLabelledby && !title
linksWithoutTextReduced(doc) ==
    LET l == links(doc)
        hit(i) ==
            /\ Falsy(trimmedText(doc.body[l[i]]))
            /\ Falsy(getAttribute(doc.body[l[i]], "ariaLabel"))
            /\ Falsy(getAttribute(doc.body[l[i]], "ariaLabelledby"))
            /\ Falsy(getAttribute(doc.body[l[i]], "title"))
    IN  ForEachPush({i \in 1..Len(l) : hit(i)},
                    [i \in 1..Len(l) |-> Node(l[i], "a", i)])

\* document.querySelectorAll('button')
buttonElements(doc) == querySelectorAll({p \in Positions(doc) : doc.body[p].tag = "button"})

\* !text && !ariaLabel && !ariaLabelledby
buttonsWithoutTextReduced(doc) ==
    LET l == buttonElements(doc)
        hit(i) ==
            /\ Falsy(trimmedText(doc.body[l[i]]))
            /\ Falsy(getAttribute(doc.body[l[i]], "ariaLabel"))
            /\ Falsy(getAttribute(doc.body[l[i]], "ariaLabelledby"))
    IN  ForEachPush({i \in 1..Len(l) : hit(i)},
                    [i \in 1..Len(l) |-> Node(l[i], "button", i)])

\* for (let i = 1; i < headingLevels.length; i++) if (current > previous + 1)
skippedHeadingsReduced(doc) ==
    LET l == headings(doc)
        levels == headingLevels(doc)
        hit(i) ==
            i > 1 /\ levels[i] > levels[i - 1] + 1
    IN  ForEachPush({i \in 1..Len(l) : hit(i)},
                    [i \in 1..Len(l) |-> Node(l[i], tagName(doc.body[l[i]]), 0)])

violationsOfReduced(doc) ==
       PushIf(Len(imagesWithoutAltReduced(doc)) > 0, Violation("image-alt", imagesWithoutAltReduced(doc)))
    \o PushIf(Len(inputsWithoutLabels(doc)) > 0, Violation("label", inputsWithoutLabels(doc)))
    \o PushIf(titleMissing(doc), Violation("document-title", <<Node(title(doc), "title", 0)>>))
    \o PushIf(Falsy(doc.lang), Violation("html-has-lang", <<Node(0, "html", 0)>>))
    \o PushIf(Len(linksWithoutTextReduced(doc)) > 0, Violation("link-name", linksWithoutTextReduced(doc)))
    \o PushIf(Len(buttonsWithoutTextReduced(doc)) > 0, Violation("button-name", buttonsWithoutTextReduced(doc)))
    \o PushIf(Len(skippedHeadingsReduced(doc)) > 0, Violation("heading-order", skippedHeadingsReduced(doc)))

passesOfReduced(doc) ==
       PushIf(Len(images(doc)) > 0 /\ Len(imagesWithoutAltReduced(doc)) = 0, Pass("image-alt"))
    \o PushIf(~titleMissing(doc), Pass("document-title"))
    \o PushIf(Truthy(doc.lang), Pass("html-has-lang"))

\* The value the reduced runAccessibilityChecks returns when it returns.
runAccessibilityChecksReduced(doc) ==
    [violations |-> violationsOfReduced(doc), passes |-> passesOfReduced(doc), incomplete |-> << >>]

\* The inputs of the reduced engine whose label lookup throws.
throwingInputs(doc) ==
    {p \in Positions(doc) : IsReducedInput(doc.body[p]) /\ labelThrows(doc.body[p])}

\* The exception that ends the reduced runAccessibilityChecks, NoError when
\* it returns.
thrownByReduced(doc) ==
    IF throwingInputs(doc) # {}
    THEN Error("SyntaxError",
               "'" \o labelSelector(getAttribute(doc.body[querySelector(throwingInputs(doc))], "id"))
                   \o "' is not a valid selector")
    ELSE IF ~doc.root
    THEN Error("TypeError", "Cannot read properties of null (reading 'getAttribute')")
    ELSE NoError

(***************************************************************************)
(* The pages a request can be answered with                                *)
(***************************************************************************)

MaxLen == 2

MaxHeadings == 3

MaxLong == 11

LowContrast == "color: #999999; background-color: #ffffff"

\* Elements of every kind a rule scans, failing and passing.
Catalogue == {
    El("title", [text |-> " Home "]),
    El("title", [text |-> "  "]),
    El("meta", [name |-> "viewport"]),
    El("img", [alt |-> Null]),
    El("img", [alt |-> ""]),
    El("img", [alt |-> "logo"]),
    El("input", [placeholder |-> "Name"]),
    El("input", [type |-> "hidden"]),
    El("input", [type |-> "text", id |-> "f1"]),
    El("label", [for |-> "f1", text |-> "Name"]),
    El("textarea", [ariaLabel |-> "Notes"]),
    El("input", [type |-> "submit"]),
    El("button", [text |-> " Click "]),
    El("a", [href |-> "/a", text |-> "Click here"]),
    El("a", [href |-> "/b", text |-> "Click here"]),
    El("a", [href |-> "/c", ariaLabelledby |-> "x"]),
    El("h1", [text |-> "Top"]),
    El("h2", [text |-> " "]),
    El("h4", [text |-> "Deep"]),
    El("table", [th |-> 0]),
    El("table", [th |-> 2, caption |-> TRUE]),
    El("p", [text |-> "grey", style |-> LowContrast]),
    El("span", [text |-> "ok", style |-> "color: black; background-color: white"]) }

Langs == {Null, "", "en"}

SeqsUpTo(S, n) == UNION {[1..k -> S] : k \in 0..n}

\* Short pages over the whole catalogue.
MixedDocs == {Doc(l, b) : l \in Langs, b \in SeqsUpTo(Catalogue, MaxLen)}

HeadingCatalogue == {El(h, [text |-> "x"]) : h \in HeadingTags}

\* Pages that are a run of headings.
HeadingDocs == {Doc("en", b) : b \in SeqsUpTo(HeadingCatalogue, MaxHeadings)}

LongCatalogue == {El("img", [alt |-> Null]), El("p", [text |-> "grey", style |-> LowContrast])}

\* Pages with more findings per rule than the report keeps.
LongDocs == {Doc("en", b) : b \in [1..MaxLong -> LongCatalogue]}

MaxForm == 2

\* Form elements by what labels them, and labels.
FormCatalogue == {
    El("input", << >>),
    El("input", [id |-> "f2"]),
    El("input", [type |-> "text", id |-> "f1"]),
    El("label", [for |-> "f1", text |-> "Name"]),
    El("label", [text |-> "Loose"]),
    El("input", [ariaLabel |-> ""]),
    El("select", [ariaLabelledby |-> "x"]),
    El("textarea", [ariaLabel |-> "Notes"]),
    El("input", [type |-> "image"]),
    El("input", [id |-> "a\"b"]),
    El("label", [for |-> "a\"b", text |-> "Quoted"]) }

FormDocs == {Doc("en", b) : b \in SeqsUpTo(FormCatalogue, MaxForm)}

MaxButtons == 2

\* Buttons by which of text, value, aria-label and title they have.
ButtonCatalogue == {
    El("button", [text |-> "  "]),
    El("button", [text |-> " Save "]),
    El("button", [ariaLabelledby |-> "x"]),
    El("button", [value |-> " ", ariaLabel |-> "Close"]),
    El("button", [value |-> "more", ariaLabel |-> "Close"]),
    El("button", [ariaLabel |-> "here", title |-> "Save"]),
    El("button", [ariaLabel |-> "", title |-> "Link"]),
    El("input", [type |-> "reset"]),
    El("input", [type |-> "submit", value |-> " Send "]),
    El("input", [type |-> "button", value |-> "  ", title |-> "Go"]),
    El("input", [type |-> "text", value |-> "click"]) }

ButtonDocs == {Doc("en", b) : b \in SeqsUpTo(ButtonCatalogue, MaxButtons)}

MaxLinks == 3

\* Links that share a text, with equal and with different targets.
LinkCatalogue == {
    El("a", [href |-> "/a", text |-> "Docs"]),
    El("a", [href |-> "/b", text |-> " Docs "]),
    El("a", [href |-> "/c", ariaLabel |-> "Docs"]),
    El("a", [href |-> "/a", text |-> "Blog"]),
    El("a", [href |-> "/b"]),
    El("a", [text |-> "Docs"]) }

LinkDocs == {Doc("en", b) : b \in SeqsUpTo(LinkCatalogue, MaxLinks)}

\* Pages that differ in the lang attribute of the root only.
LangDocs == {Doc(l, <<El("title", [text |-> "Home"])>>) : l \in {" ", "en-GB", "x"}}

Docs == MixedDocs \cup HeadingDocs \cup LongDocs \cup FormDocs \cup ButtonDocs \cup LinkDocs
            \cup LangDocs

(***************************************************************************)
(* POST                                                                    *)
(***************************************************************************)

VARIABLES
    pc,         \* where the handler is: "start", "firecrawl", "fetch", "parsed", "done"
    requestBody, \* what the request carries: "object" (a JSON value that url
                \* can be read from), "null", "empty", or "text" (not JSON)
    hasKey,     \* process.env.FIRECRAWL_API_KEY is set
    url,        \* the url of the request body
    scrape,     \* "none": app.scrapeUrl was not called; "html": it gave html;
                \* "failed": it threw, or answered without success or html
    fetched,    \* fetch(url) was called
    html,       \* <<d>> once the page d was obtained, << >> before
    htmlFrom,   \* which of the two fetches assigned html
    results,    \* <<r>> once runAccessibilityChecks returned r
    response    \* <<r>> once the handler returned the response r

postVars == <<pc, requestBody, hasKey, url, scrape, fetched, html, htmlFrom, results, response>>

\* One worker that calls runAccessibilityChecks again and again.
VARIABLES
    callPc,     \* the statement the call is at, "idle" between calls
    calls,      \* the number of calls made
    document,   \* <<d>>: the argument of the call
    violations, \* the three arrays of the call
    passes,
    incomplete,
    returned    \* what the callers got so far: the set of [document, thrown, value]

callVars == <<callPc, calls, document, violations, passes, incomplete, returned>>

\* One evaluation of getContrastRatio.
VARIABLES
    pairFg,     \* its two arguments
    pairBg,
    pairRatio   \* <<r>> once it returned r

pairVars == <<pairFg, pairBg, pairRatio>>

\* One evaluation of each of the two runAccessibilityChecks on one page.
VARIABLES
    sample,         \* <<d>>: the page
    sampleResult,   \* <<r>> once the full runAccessibilityChecks returned r
    sampleThrown,   \* what the full runAccessibilityChecks threw, NoError so far
    reducedResult,  \* <<r>> once the reduced runAccessibilityChecks returned r
    reducedThrown   \* what the reduced runAccessibilityChecks threw

sampleVars == <<sample, sampleResult, sampleThrown, reducedResult, reducedThrown>>

\* The state of the Home component and of the request it sent.
VARIABLES
    homeUrl,      \* const [url, setUrl] = useState('')
    homeReport,   \* const [report, setReport] = useState(null)
    homeLoading,  \* const [loading, setLoading] = useState(false)
    homeError,    \* const [error, setError] = useState('')
    homePc,       \* "idle", or "awaiting" while handleSubmit awaits the fetch
    submits       \* the number of submits so far

homeVars == <<homeUrl, homeReport, homeLoading, homeError, homePc, submits>>

vars == <<postVars, callVars, pairVars, sampleVars, homeVars>>

CallsIdle ==
    /\ callPc = "idle"
    /\ calls = 0
    /\ document = << >>
    /\ violations = << >>
    /\ passes = << >>
    /\ incomplete = << >>
    /\ returned = {}

PairIdle ==
    /\ pairFg = RGB(0, 0, 0)
    /\ pairBg = RGB(0, 0, 0)
    /\ pairRatio = << >>

SampleIdle ==
    /\ sample = << >>
    /\ sampleResult = << >>
    /\ sampleThrown = NoError
    /\ reducedResult = << >>
    /\ reducedThrown = NoError

\* The initial values of the four useState calls.
HomeIdle ==
    /\ homeUrl = ""
    /\ homeReport = Null
    /\ homeLoading = FALSE
    /\ homeError = ""
    /\ homePc = "idle"
    /\ submits = 0

RequestUrls == {Null, "", "example.com", "https://example.com"}

RequestBodies == {"object", "null", "empty", "text"}

\* What const { url } = await request.json() throws for a body that is the
\* JSON null, is empty, or is the text timeout.
bodyError(b) ==
    CASE b = "null"  -> [name |-> "TypeError",
                         message |-> "Cannot destructure property 'url' of '(intermediate value)' as it is null."]
      [] b = "empty" -> [name |-> "SyntaxError", message |-> "Unexpected end of JSON input"]
      [] b = "text"  -> [name |-> "SyntaxError",
                         message |-> "Unexpected token 'i', \"timeout\" is not valid JSON"]

\* new URL(url) does not throw
UrlParses(u) == Includes(u, "://")

ErrorResponse(status, error) == [status |-> status, error |-> error, report |-> << >>]

\* The outer catch of the handler, for an error that is an Error.
CatchResponse(error) ==
    IF error.name = "TypeError" /\ Includes(error.message, "fetch")
    THEN ErrorResponse(400, "Unable to reach the specified URL.")
    ELSE IF Includes(error.message, "timeout")
    THEN ErrorResponse(408, "The page took too long to load.")
    ELSE ErrorResponse(500, "Error testing accessibility")

NodesCap == 5

\* The report object of the handler (the timestamp left out).
Report(u, key, r) ==
    [url |-> u,
     crawlMethod |-> IF key THEN "firecrawl" ELSE "direct-fetch",
     violations |-> [i \in 1..Len(r.violations) |->
                        Violation(r.violations[i].id, SliceTo(r.violations[i].nodes, NodesCap))],
     passes |-> r.passes,
     incomplete |-> [i \in 1..Len(r.incomplete) |->
                        Violation(r.incomplete[i].id, SliceTo(r.incomplete[i].nodes, NodesCap))]]

OkResponse(report) == [status |-> 200, error |-> Null, report |-> <<report>>]

PostInit ==
    /\ pc = "start"
    /\ requestBody \in RequestBodies
    /\ hasKey \in BOOLEAN
    /\ url \in RequestUrls
    /\ requestBody # "object" => url = Null
    /\ scrape = "none"
    /\ fetched = FALSE
    /\ html = << >>
    /\ htmlFrom = "none"
    /\ results = << >>
    /\ response = << >>

Init == PostInit /\ CallsIdle /\ PairIdle /\ SampleIdle /\ HomeIdle

\* Mutant: the url is not parsed before it is fetched.
ValidateUrl_Unparsed ==
    /\ pc = "start"
    /\ IF requestBody # "object"
       THEN /\ response' = <<CatchResponse(bodyError(requestBody))>>
            /\ pc' = "done"
       ELSE IF Falsy(url)
       THEN /\ response' = <<ErrorResponse(400, "URL is required")>>
            /\ pc' = "done"
       ELSE /\ response' = response
            /\ pc' = "firecrawl"
    /\ UNCHANGED <<requestBody, hasKey, url, scrape, fetched, html, htmlFrom, results>>
    /\ UNCHANGED <<callVars, pairVars, sampleVars, homeVars>>

\* const { url } = await request.json(), whose exception goes to the outer
\* catch; the two checks of the url
ValidateUrl ==
    /\ pc = "start"
    /\ IF requestBody # "object"
       THEN /\ response' = <<CatchResponse(bodyError(requestBody))>>
            /\ pc' = "done"
       ELSE IF Falsy(url)
       THEN /\ response' = <<ErrorResponse(400, "URL is required")>>
            /\ pc' = "done"
       ELSE IF ~UrlParses(url)
       THEN /\ response' = <<ErrorResponse(400, "Invalid URL format")>>
            /\ pc' = "done"
       ELSE /\ response' = response
            /\ pc' = "firecrawl"
    /\ UNCHANGED <<requestBody, hasKey, url, scrape, fetched, html, htmlFrom, results>>
    /\ UNCHANGED <<callVars, pairVars, sampleVars, homeVars>>


\* Mutant: the direct fetch runs after a successful scrape too.
Firecrawl_AlwaysFetches ==
    /\ pc = "firecrawl"
    /\ \/ /\ hasKey
          /\ \E d \in Docs :
                /\ scrape' = "html"
                /\ html' = <<d>>
                /\ htmlFrom' = "firecrawl"
                /\ pc' = "fetch"
       \/ /\ hasKey
          /\ scrape' = "failed"
          /\ pc' = "fetch"
          /\ UNCHANGED <<html, htmlFrom>>
       \/ /\ ~hasKey
          /\ pc' = "fetch"
          /\ UNCHANGED <<scrape, html, htmlFrom>>
    /\ UNCHANGED <<requestBody, hasKey, url, fetched, results, response>>
    /\ UNCHANGED <<callVars, pairVars, sampleVars, homeVars>>

\* The try block around app.scrapeUrl: with the key set the scrape is made,
\* and html is assigned when it succeeds with html; a failed scrape and a
\* missing key both throw into the catch.
Firecrawl ==
    /\ pc = "firecrawl"
    /\ \/ /\ hasKey
          /\ \E d \in Docs :
                /\ scrape' = "html"
                /\ html' = <<d>>
                /\ htmlFrom' = "firecrawl"
                /\ pc' = "parsed"
       \/ /\ hasKey
          /\ scrape' = "failed"
          /\ pc' = "fetch"
          /\ UNCHANGED <<html, htmlFrom>>
       \/ /\ ~hasKey
          /\ pc' = "fetch"
          /\ UNCHANGED <<scrape, html, htmlFrom>>
    /\ UNCHANGED <<requestBody, hasKey, url, fetched, results, response>>
    /\ UNCHANGED <<callVars, pairVars, sampleVars, homeVars>>

\* What fetch(url) and response.text() throw.
FetchThrows == {
    Error("TypeError", "fetch failed"),
    Error("Error", "The operation was aborted due to timeout"),
    Error("Error", "terminated") }

FetchErrors ==
    {ErrorResponse(400, "Unable to fetch the URL. Server responded with status")}
        \cup {CatchResponse(e) : e \in FetchThrows}

\* The catch block: the direct fetch
DirectFetch ==
    /\ pc = "fetch"
    /\ fetched' = TRUE
    /\ \/ \E d \in Docs :
            /\ html' = <<d>>
            /\ htmlFrom' = "direct-fetch"
            /\ pc' = "parsed"
            /\ response' = response
       \/ \E e \in FetchErrors :
            /\ response' = <<e>>
            /\ pc' = "done"
            /\ UNCHANGED <<html, htmlFrom>>
    /\ UNCHANGED <<requestBody, hasKey, url, scrape, results>>
    /\ UNCHANGED <<callVars, pairVars, sampleVars, homeVars>>

\* new JSDOM(html), runAccessibilityChecks(document), the report, the return;
\* an exception of the checks goes to the outer catch.
Respond ==
    /\ pc = "parsed"
    /\ IF thrownBy(html[1]) # NoError
       THEN /\ results' = results
            /\ response' = <<CatchResponse(thrownBy(html[1]))>>
       ELSE LET r == runAccessibilityChecks(html[1])
            IN  /\ results' = <<r>>
                /\ response' = <<OkResponse(Report(url, hasKey, r))>>
    /\ pc' = "done"
    /\ UNCHANGED <<requestBody, hasKey, url, scrape, fetched, html, htmlFrom>>
    /\ UNCHANGED <<callVars, pairVars, sampleVars, homeVars>>

Next == ValidateUrl \/ Firecrawl \/ DirectFetch \/ Respond

Spec == Init /\ [][Next]_vars

\* No request is being handled.
PostIdle ==
    /\ pc = "idle"
    /\ requestBody = "object"
    /\ hasKey = FALSE
    /\ url = Null
    /\ scrape = "none"
    /\ fetched = FALSE
    /\ html = << >>
    /\ htmlFrom = "none"
    /\ results = << >>
    /\ response = << >>

(***************************************************************************)
(* Calls of runAccessibilityChecks, one after the other                    *)
(***************************************************************************)

MaxCalls == 3

\* The documents the worker evaluates.
CallDocs == {
    NoRootDoc,
    Doc("en", << >>),
    Doc(Null, <<El("img", [alt |-> Null]), El("h1", [text |-> "Top"])>>),
    Doc("en", <<El("title", [text |-> "Home"]), El("meta", [name |-> "viewport"]),
                El("h1", [text |-> "Top"]), El("table", [th |-> 0])>>),
    Doc("en", <<El("img", [alt |-> Null]), El("input", [id |-> "a\"b"])>>),
    Doc("en", <<El("input", << >>), El("a", [href |-> "/a", text |-> "here"])>>) }

Outcome(doc, thrown, value) == [document |-> doc, thrown |-> thrown, value |-> value]

CallsInit == PostIdle /\ CallsIdle /\ PairIdle /\ SampleIdle /\ HomeIdle

\* Mutant: the three arrays are not created anew, they are what the call
\* before left.
CallEnter_KeepsArrays ==
    /\ callPc = "idle"
    /\ calls < MaxCalls
    /\ \E d \in CallDocs : document' = <<d>>
    /\ calls' = calls + 1
    /\ callPc' = "checks1to5"
    /\ UNCHANGED <<violations, passes, incomplete, returned>>
    /\ UNCHANGED <<postVars, pairVars, sampleVars, homeVars>>

\* The call and the three array declarations
CallEnter ==
    /\ callPc = "idle"
    /\ calls < MaxCalls
    /\ \E d \in CallDocs : document' = <<d>>
    /\ calls' = calls + 1
    /\ violations' = << >>
    /\ passes' = << >>
    /\ incomplete' = << >>
    /\ callPc' = "checks1to5"
    /\ UNCHANGED returned
    /\ UNCHANGED <<postVars, pairVars, sampleVars, homeVars>>

\* Checks 1 to 5.  A label lookup that throws ends the call in check 2, after
\* the push of check 1.
CallElementChecks ==
    /\ callPc = "checks1to5"
    /\ LET d == document[1]
       IN  IF throwingFormElements(d) # {}
           THEN /\ violations' = violations \o PushIf(Len(imagesWithoutAlt(d)) > 0,
                                                      Violation("image-alt", imagesWithoutAlt(d)))
                /\ returned' = returned \cup {Outcome(d, thrownBy(d), << >>)}
                /\ callPc' = "idle"
           ELSE /\ violations' = violations \o elementViolations(d)
                /\ returned' = returned
                /\ callPc' = "check6"
    /\ UNCHANGED <<calls, document, passes, incomplete>>
    /\ UNCHANGED <<postVars, pairVars, sampleVars, homeVars>>

\* The pushes of check 6 that come before htmlElement.getAttribute('lang')
pushedBeforeLang(v) == v.id \in {"document-title", "page-has-heading-one", "multiple-h1"}

\* Check 6.  Without a root the call ends at htmlElement.getAttribute, after
\* the title and h1 pushes.
CallStructureCheck ==
    /\ callPc = "check6"
    /\ LET d == document[1]
       IN  IF ~d.root
           THEN /\ violations' = violations \o SelectSeq(structureViolations(d), pushedBeforeLang)
                /\ returned' = returned \cup {Outcome(d, thrownBy(d), << >>)}
                /\ callPc' = "idle"
           ELSE /\ violations' = violations \o structureViolations(d)
                /\ returned' = returned
                /\ callPc' = "checks7to8"
    /\ UNCHANGED <<calls, document, passes, incomplete>>
    /\ UNCHANGED <<postVars, pairVars, sampleVars, homeVars>>

\* Checks 7 and 8
CallHeadingTableChecks ==
    /\ callPc = "checks7to8"
    /\ violations' = violations \o headingAndTableViolations(document[1])
    /\ callPc' = "passChecks"
    /\ UNCHANGED <<calls, document, passes, incomplete, returned>>
    /\ UNCHANGED <<postVars, pairVars, sampleVars, homeVars>>

\* passChecks.forEach
CallPassChecks ==
    /\ callPc = "passChecks"
    /\ passes' = passes \o passChecks(document[1])
    /\ callPc' = "return"
    /\ UNCHANGED <<calls, document, violations, incomplete, returned>>
    /\ UNCHANGED <<postVars, pairVars, sampleVars, homeVars>>

\* return { violations, passes, incomplete }
CallReturn ==
    /\ callPc = "return"
    /\ returned' = returned \cup
            {Outcome(document[1], NoError,
                     <<[violations |-> violations, passes |-> passes, incomplete |-> incomplete]>>)}
    /\ callPc' = "idle"
    /\ UNCHANGED <<calls, document, violations, passes, incomplete>>
    /\ UNCHANGED <<postVars, pairVars, sampleVars, homeVars>>

CallsNext ==
    \/ CallEnter
    \/ CallElementChecks
    \/ CallStructureCheck
    \/ CallHeadingTableChecks
    \/ CallPassChecks
    \/ CallReturn

SpecCalls == CallsInit /\ [][CallsNext]_vars

(***************************************************************************)
(* getContrastRatio on pairs of colours                                    *)
(***************************************************************************)

\* Channel values: both branches of the transfer function, the ends of the
\* range and one value above it.
ChannelSamples == {0, 10, 128, 255, 300}

PairColors == {RGB(r, g, b) : r, g, b \in ChannelSamples}

PairInit ==
    /\ PostIdle
    /\ CallsIdle
    /\ SampleIdle
    /\ HomeIdle
    /\ pairFg \in PairColors
    /\ pairBg \in PairColors
    /\ pairRatio = << >>

\* const contrast = getContrastRatio(textColor, bgColor)
Contrast ==
    /\ pairRatio = << >>
    /\ pairRatio' = <<getContrastRatio(pairFg, pairBg)>>
    /\ UNCHANGED <<pairFg, pairBg>>
    /\ UNCHANGED <<postVars, callVars, sampleVars, homeVars>>

PairNext == Contrast

SpecContrast == PairInit /\ [][PairNext]_vars

(***************************************************************************)
(* Pages with one styled text element                                      *)
(***************************************************************************)

ColorDecls == {"", "color: #888888", "color:#000000", "color: #fff", "color: hsl(0, 0%, 0%)"}

BgDecls == {"", "background-color: #ffffff", "background-color:#777777",
            "background-color: hsl(0, 0%, 100%)"}

SizeDecls == {"", "font-size: 13px", "font-size: 14px", "font-size:17px",
              "font-size: 18px", "font-size: 18.5px"}

WeightDecls == {"", "font-weight: bold", "font-weight:bold", "font-weight: normal"}

SampleTexts == {"Sample", " ", ""}

\* What precedes the styled element on the page.
SampleContexts == {<< >>, <<El("div", [text |-> "intro"])>>, <<El("img", [alt |-> Null])>>}

RECURSIVE JoinDecls(_)
JoinDecls(ds) ==
    IF ds = << >> THEN ""
    ELSE IF Head(ds) = "" THEN JoinDecls(Tail(ds))
    ELSE IF JoinDecls(Tail(ds)) = "" THEN Head(ds)
    ELSE Head(ds) \o "; " \o JoinDecls(Tail(ds))

\* The style attribute with the colour declaration before or after the
\* background declaration; no attribute without a declaration.
StyleOf(colorFirst, c, b, s, w) ==
    LET st == JoinDecls(IF colorFirst THEN <<c, b, s, w>> ELSE <<b, c, s, w>>)
    IN  IF st = "" THEN Null ELSE st

SampleDocs ==
    {Doc("en", ctx \o <<El("p", [style |-> StyleOf(cf, c, b, s, w), text |-> tx])>>) :
        ctx \in SampleContexts, cf \in BOOLEAN, c \in ColorDecls, b \in BgDecls,
        s \in SizeDecls, w \in WeightDecls, tx \in SampleTexts}

MaxCompare == 2

CompareCatalogue == {
    El("img", [alt |-> Null]),
    El("img", [alt |-> ""]),
    El("img", [alt |-> "logo"]),
    El("title", [text |-> "Home"]),
    El("title", [text |-> " "]),
    El("h1", [text |-> "Top"]),
    El("h3", [text |-> "Deep"]),
    El("input", [type |-> "text"]),
    El("input", [type |-> "text", id |-> "a\"b"]),
    El("select", [id |-> "a\"b"]) }

\* Pages on which the two engines are compared.
CompareDocs == {Doc(l, b) : l \in Langs, b \in SeqsUpTo(CompareCatalogue, MaxCompare)}

SampleInit ==
    /\ PostIdle
    /\ CallsIdle
    /\ PairIdle
    /\ HomeIdle
    /\ sample \in {<<d>> : d \in SampleDocs \cup CompareDocs}
    /\ sampleResult = << >>
    /\ sampleThrown = NoError
    /\ reducedResult = << >>
    /\ reducedThrown = NoError

\* const results = runAccessibilityChecks(document), the full engine
Evaluate ==
    /\ sampleResult = << >> /\ sampleThrown = NoError
    /\ IF thrownBy(sample[1]) # NoError
       THEN /\ sampleThrown' = thrownBy(sample[1])
            /\ UNCHANGED sampleResult
       ELSE /\ sampleResult' = <<runAccessibilityChecks(sample[1])>>
            /\ UNCHANGED sampleThrown
    /\ UNCHANGED <<sample, reducedResult, reducedThrown>>
    /\ UNCHANGED <<postVars, callVars, pairVars, homeVars>>

\* const results = runAccessibilityChecks(document), the reduced engine
EvaluateReduced ==
    /\ reducedResult = << >> /\ reducedThrown = NoError
    /\ IF thrownByReduced(sample[1]) # NoError
       THEN /\ reducedThrown' = thrownByReduced(sample[1])
            /\ UNCHANGED reducedResult
       ELSE /\ reducedResult' = <<runAccessibilityChecksReduced(sample[1])>>
            /\ UNCHANGED reducedThrown
    /\ UNCHANGED <<sample, sampleResult, sampleThrown>>
    /\ UNCHANGED <<postVars, callVars, pairVars, homeVars>>

SampleNext == Evaluate \/ EvaluateReduced

SpecStyles == SampleInit /\ [][SampleNext]_vars

(***************************************************************************)
(* The Home component: the form and its request                            *)
(***************************************************************************)

MaxSubmits == 4

\* What the user can have typed into the url field.
HomeUrls == {"", " ", "example.com", "https://example.com"}

\* What the awaited fetch and response.json() can end in: a 200 with a
\* report, an error status with or without an error text, or an exception.
FetchOutcomes == {
    [ok |-> TRUE,  error |-> Null, thrown |-> Null],
    [ok |-> FALSE, error |-> "Invalid URL format", thrown |-> Null],
    [ok |-> FALSE, error |-> "", thrown |-> Null],
    [ok |-> FALSE, error |-> Null, thrown |-> "Failed to fetch"] }

HomeInit == PostIdle /\ CallsIdle /\ PairIdle /\ SampleIdle /\ HomeIdle

\* onChange of the input, which is disabled while loading
setUrl ==
    /\ ~homeLoading
    /\ \E v \in HomeUrls : homeUrl' = v
    /\ homeUrl' # homeUrl
    /\ UNCHANGED <<homeReport, homeLoading, homeError, homePc, submits>>
    /\ UNCHANGED <<postVars, callVars, pairVars, sampleVars>>

\* handleSubmit up to its await (the button is disabled while loading): the
\* two rejections of the url, or the three setters and the fetch
handleSubmit ==
    /\ ~homeLoading
    /\ homePc = "idle"
    /\ submits < MaxSubmits
    /\ submits' = submits + 1
    /\ IF Falsy(Trim(homeUrl))
       THEN /\ homeError' = "Please enter a valid URL"
            /\ UNCHANGED <<homeReport, homeLoading, homePc>>
       ELSE IF ~UrlParses(homeUrl)
       THEN /\ homeError' = "Please enter a valid URL (including http:// or https://)"
            /\ UNCHANGED <<homeReport, homeLoading, homePc>>
       ELSE /\ homeLoading' = TRUE
            /\ homeError' = ""
            /\ homeReport' = Null
            /\ homePc' = "awaiting"
    /\ UNCHANGED homeUrl
    /\ UNCHANGED <<postVars, callVars, pairVars, sampleVars>>

\* handleSubmit after its await: setReport(data), or the catch with the
\* thrown message (data.error || 'Failed to test accessibility' for a
\* response that is not ok), and the finally
settle ==
    /\ homePc = "awaiting"
    /\ \E o \in FetchOutcomes :
          IF o.thrown # Null
          THEN /\ homeError' = o.thrown
               /\ UNCHANGED homeReport
          ELSE IF ~o.ok
          THEN /\ homeError' = Or2(o.error, "Failed to test accessibility")
               /\ UNCHANGED homeReport
          ELSE /\ homeReport' = "report"
               /\ UNCHANGED homeError
    /\ homeLoading' = FALSE
    /\ homePc' = "idle"
    /\ UNCHANGED <<homeUrl, submits>>
    /\ UNCHANGED <<postVars, callVars, pairVars, sampleVars>>

HomeNext == setUrl \/ handleSubmit \/ settle

SpecHome == HomeInit /\ [][HomeNext]_vars

(***************************************************************************)
(* Properties                                                              *)
(***************************************************************************)

\* The handler has run the engine and answered.
Checked == pc = "done" /\ results # << >>

TheDoc == html[1]

Body == html[1].body

\* What runAccessibilityChecks returned.
Res == results[1]

\* The report in the response.
Rep == response[1].report[1]

ObsHas(list, id) == \E i \in 1..Len(list) : list[i].id = id

ObsNodes(vs, id) ==
    IF ObsHas(vs, id) THEN vs[CHOOSE i \in 1..Len(vs) : vs[i].id = id].nodes ELSE << >>

ObsNodeSet(vs, id) == {ObsNodes(vs, id)[k].node : k \in 1..Len(ObsNodes(vs, id))}

ObsMin(a, b) == IF a <= b THEN a ELSE b

\* The elements a rule scans.
ObsScans(rule, e) ==
    CASE rule = "image-alt"     -> e.tag = "img"
      [] rule = "label"         -> /\ e.tag \in {"input", "textarea", "select"}
                                   /\ ~(e.tag = "input" /\ e.type \in {"hidden", "submit", "button", "reset", "image"})
      [] rule = "button-name"   -> e.tag = "button" \/ (e.tag = "input" /\ e.type \in {"button", "submit", "reset"})
      [] rule = "link-name"     -> e.tag = "a" /\ e.href # Null
      [] rule = "heading-order" -> e.tag \in {"h1", "h2", "h3", "h4", "h5", "h6"}
      [] rule = "table-headers" -> e.tag = "table"
      [] OTHER                  -> TRUE

ObsElementRules == {"image-alt", "label", "button-name", "link-name", "heading-order", "table-headers"}

ObsPageRules == {"document-title", "html-has-lang", "page-has-heading-one", "meta-viewport"}

ObsPassRules == (ObsElementRules \ {"table-headers"}) \cup ObsPageRules

\* The id under which the code pushes the pass of a rule.
ObsPassId(rule) ==
    CASE rule = "label"         -> "form-labels"
      [] rule = "button-name"   -> "button-names"
      [] rule = "link-name"     -> "link-names"
      [] rule = "heading-order" -> "heading-structure"
      [] OTHER                  -> rule

\* A rule has something to look at: page rules always, element rules when the
\* page holds an element they scan.
ObsApplicable(rule) ==
    rule \in ObsPageRules \/ \E p \in 1..Len(Body) : ObsScans(rule, Body[p])

\* C1: runAccessibilityChecks reports an image-alt violation exactly when some
\* img has no alt attribute, with one finding per such img and none for an
\* img whose alt is present, empty or not.
C1_ImageAlt ==
    Checked =>
        LET noAlt == {p \in 1..Len(Body) : Body[p].tag = "img" /\ Body[p].alt = Null}
            nodes == ObsNodes(Res.violations, "image-alt")
        IN  /\ ObsHas(Res.violations, "image-alt") <=> noAlt # {}
            /\ Len(nodes) = Cardinality(noAlt)
            /\ {nodes[k].node : k \in 1..Len(nodes)} = noAlt

\* A page with an img without alt and an img with alt="": only the first is
\* a finding.
C1_Witness ==
    /\ Checked
    /\ \E p, q \in 1..Len(Body) :
          /\ Body[p].tag = "img" /\ Body[p].alt = Null
          /\ Body[q].tag = "img" /\ Body[q].alt = ""
          /\ ObsNodeSet(Res.violations, "image-alt") = {p}

\* C2 (as claimed): a rule with no element to scan yields neither a violation
\* nor a pass; a page whose only form elements are hidden, submit, button,
\* reset or image inputs yields no label violation and no label pass.
C2_NoElementsNoResult ==
    Checked =>
        \A rule \in ObsElementRules :
            ~ObsApplicable(rule) =>
                /\ ~ObsHas(Res.violations, rule)
                /\ ~ObsHas(Res.passes, rule)
                /\ ~ObsHas(Res.passes, ObsPassId(rule))

\* C3 (as claimed): a rule of the nine with something to look at and no
\* finding has a pass whose id is the rule's id.
C3_PassHasRuleId ==
    Checked =>
        \A rule \in ObsPassRules :
            (ObsApplicable(rule) /\ ~ObsHas(Res.violations, rule)) => ObsHas(Res.passes, rule)

\* C3 (amended): a rule of the nine with something to look at and no finding
\* has a pass, pushed under the id form-labels, button-names, link-names or
\* heading-structure for label, button-name, link-name and heading-order and
\* under the rule's id for the other five; the findings of
\* page-has-heading-one include those reported as multiple-h1.
C3_PassEmitted ==
    Checked =>
        \A rule \in ObsPassRules :
            (/\ ObsApplicable(rule)
             /\ ~ObsHas(Res.violations, rule)
             /\ rule = "page-has-heading-one" => ~ObsHas(Res.violations, "multiple-h1"))
            => ObsHas(Res.passes, ObsPassId(rule))

\* A labelled input and an img with alt: no label or image-alt finding, and
\* both passes.
C3_Witness ==
    /\ Checked
    /\ ObsApplicable("label") /\ ~ObsHas(Res.violations, "label")
    /\ ObsHas(Res.passes, "form-labels")
    /\ \/ ObsApplicable("image-alt") /\ ObsHas(Res.passes, "image-alt")
       \/ ObsApplicable("heading-order") /\ ObsHas(Res.passes, "heading-structure")

\* C4: in the engine's result and in the report, the pass of a rule and a
\* violation of that rule are never both present.
C4_PassExcludesViolation ==
    Checked =>
        \A rule \in ObsPassRules :
            \A ps \in {Res.passes, Rep.passes} :
                (ObsHas(ps, ObsPassId(rule)) \/ ObsHas(ps, rule)) =>
                    /\ ~ObsHas(Res.violations, rule)
                    /\ ~ObsHas(Rep.violations, rule)
                    /\ rule = "page-has-heading-one" => ~ObsHas(Rep.violations, "multiple-h1")

\* One report with the pass of one rule and a violation of another, both
\* rules having elements on the page.
C4_Witness ==
    /\ Checked
    /\ ObsHas(Rep.passes, "button-names") /\ ~ObsHas(Rep.violations, "button-name")
    /\ ObsHas(Rep.violations, "label") /\ ~ObsHas(Rep.passes, "form-labels")

\* C5: a rule id appears at most once in the violations list.
C5_UniqueViolationIds ==
    Checked =>
        \A vs \in {Res.violations, Rep.violations} :
            \A i, j \in 1..Len(vs) : vs[i].id = vs[j].id => i = j

\* A report with seven violations.
C5_Witness == Checked /\ Len(Rep.violations) >= 7

\* C6: within a violation the findings are in document order: the element of
\* an earlier finding precedes the element of a later one, and so do their
\* ordinals in the scanned list.
C6_FindingsInDocumentOrder ==
    Checked =>
        \A vs \in {Res.violations, Rep.violations} :
            \A v \in 1..Len(vs) :
                \A i, j \in 1..Len(vs[v].nodes) :
                    i < j => /\ vs[v].nodes[i].node < vs[v].nodes[j].node
                             /\ vs[v].nodes[i].target.nth <= vs[v].nodes[j].target.nth

\* A violation with three findings, on elements that are not adjacent.
C6_Witness ==
    /\ Checked
    /\ \E v \in 1..Len(Res.violations) :
          /\ Len(Res.violations[v].nodes) = 3
          /\ Res.violations[v].nodes[3].node > Res.violations[v].nodes[1].node + 2

ObsRuleOrder ==
    << {"image-alt"}, {"label"}, {"placeholder-as-label"}, {"button-name"},
       {"button-text-quality"}, {"link-name"}, {"link-text-quality"},
       {"link-same-text-diff-target"}, {"color-contrast"}, {"document-title"},
       {"page-has-heading-one", "multiple-h1"}, {"html-has-lang"}, {"meta-viewport"},
       {"heading-order"}, {"empty-heading"}, {"table-headers"} >>

ObsRank(id) ==
    IF \E k \in 1..Len(ObsRuleOrder) : id \in ObsRuleOrder[k]
    THEN CHOOSE k \in 1..Len(ObsRuleOrder) : id \in ObsRuleOrder[k]
    ELSE 0

\* C7: the violations list is a subsequence of the fixed rule order.
C7_FixedRuleOrder ==
    Checked =>
        \A vs \in {Res.violations, Rep.violations} :
            /\ \A i \in 1..Len(vs) : ObsRank(vs[i].id) > 0
            /\ \A i, j \in 1..Len(vs) : i < j => ObsRank(vs[i].id) < ObsRank(vs[j].id)

\* A report with a violation from the element checks, one from the page
\* structure check and one from the table check.
C7_Witness ==
    /\ Checked
    /\ ObsHas(Rep.violations, "link-text-quality")
    /\ ObsHas(Rep.violations, "meta-viewport")
    /\ ObsHas(Rep.violations, "table-headers")

\* C8: every violation of the report holds the first min(5, n) findings of
\* the engine's list, in the same order, and the engine's list for
\* color-contrast is the first min(10, n) contrast findings.
C8_CapsTruncate ==
    Checked =>
        /\ Len(Rep.violations) = Len(Res.violations)
        /\ \A i \in 1..Len(Res.violations) :
              LET all  == Res.violations[i].nodes
                  kept == Rep.violations[i].nodes
              IN  /\ Rep.violations[i].id = Res.violations[i].id
                  /\ Len(kept) <= 5
                  /\ kept = SubSeq(all, 1, ObsMin(5, Len(all)))
                  /\ Res.violations[i].id = "color-contrast" =>
                        all = SubSeq(contrastIssues(TheDoc), 1,
                                     ObsMin(10, Len(contrastIssues(TheDoc))))

\* A page with eleven contrast findings: ten in the engine's list, five in
\* the report.
C8_Witness ==
    /\ Checked
    /\ Len(contrastIssues(TheDoc)) > 10
    /\ Len(ObsNodes(Res.violations, "color-contrast")) = 10
    /\ Len(ObsNodes(Rep.violations, "color-contrast")) = 5

\* C9 (as claimed): when the page has two a[href] links with the same
\* accessible text and different hrefs, the report has a
\* link-same-text-diff-target violation with one finding, for the second link.
C9_SameTextReported ==
    Checked =>
        \A p, q \in 1..Len(Body) :
            (/\ p < q
             /\ {k \in 1..Len(Body) : IsLink(Body[k])} = {p, q}
             /\ Truthy(linkAccessibleText(Body[p]))
             /\ linkAccessibleText(Body[p]) = linkAccessibleText(Body[q])
             /\ Body[p].href # Body[q].href)
            => ObsNodeSet(Rep.violations, "link-same-text-diff-target") = {q}

ObsLevel(tag) ==
    CASE tag = "h1" -> 1 [] tag = "h2" -> 2 [] tag = "h3" -> 3
      [] tag = "h4" -> 4 [] tag = "h5" -> 5 [] tag = "h6" -> 6 [] OTHER -> 0

ObsIsHeading(e) == ObsLevel(e.tag) > 0

\* The heading before position p, 0 when p is the first heading.
ObsPrevHeading(p) ==
    LET before == {q \in 1..(p - 1) : ObsIsHeading(Body[q])}
    IN  IF before = {} THEN 0 ELSE CHOOSE q \in before : \A r \in before : r <= q

\* C10: a heading has a heading-order finding exactly when there is a heading
\* before it and its level exceeds the level of the one just before it by
\* more than 1.
C10_HeadingOrder ==
    Checked =>
        LET nodes == ObsNodes(Res.violations, "heading-order")
        IN  /\ \A p \in 1..Len(Body) :
                  ObsIsHeading(Body[p]) =>
                      ((\E k \in 1..Len(nodes) : nodes[k].node = p) <=>
                          /\ ObsPrevHeading(p) # 0
                          /\ ObsLevel(Body[p].tag) > ObsLevel(Body[ObsPrevHeading(p)].tag) + 1)
            /\ \A k \in 1..Len(nodes) : ObsIsHeading(Body[nodes[k].node])
            /\ \A k, m \in 1..Len(nodes) : nodes[k].node = nodes[m].node => k = m

\* The page h1, h2, h4: one finding, on the h4.
C10_Witness ==
    /\ Checked
    /\ Len(Body) = 3
    /\ Body[1].tag = "h1" /\ Body[2].tag = "h2" /\ Body[3].tag = "h4"
    /\ ObsNodeSet(Res.violations, "heading-order") = {3}
    /\ Len(ObsNodes(Res.violations, "heading-order")) = 1

\* C11: the outcome of runAccessibilityChecks depends on its document only:
\* whatever was evaluated before, two calls on the same document give the
\* same violations, passes and incomplete lists (or the same exception).
C11_SameDocumentSameResult ==
    \A x, y \in returned : x.document = y.document => x = y

\* Three calls have ended, on two documents: one of them was evaluated twice,
\* and it has findings.
C11_Witness ==
    /\ callPc = "idle"
    /\ calls = 3
    /\ Cardinality(returned) = 2
    /\ \A x \in returned : x.value # << >> /\ Len(x.value[1].violations) > 0

\* C12 (as claimed): on a document without a root the call returns no report
\* and ends in an error that says the document is invalid, before any check
\* has run.
C12_InvalidDocumentError ==
    \A x \in returned :
        ~x.document.root =>
            /\ x.value = << >>
            /\ Includes(ToLowerCase(x.thrown.message), "invalid document")

\* C13: getContrastRatio is symmetric: the ratio computed for (a, b) is the
\* ratio of (b, a).
C13_ContrastSymmetric ==
    pairRatio # << >> => pairRatio[1] = getContrastRatio(pairBg, pairFg)

\* A ratio above 1 computed with the darker colour first.
C13_Witness ==
    /\ pairRatio # << >>
    /\ getLuminance(pairFg.r, pairFg.g, pairFg.b) < getLuminance(pairBg.r, pairBg.g, pairBg.b)
    /\ pairRatio[1].num > pairRatio[1].den

ObsInRange(color) == color.r \in 0..255 /\ color.g \in 0..255 /\ color.b \in 0..255

ObsBlack == [r |-> 0, g |-> 0, b |-> 0]

ObsWhite == [r |-> 255, g |-> 255, b |-> 255]

\* C14: for colours with channels in 0..255 the contrast ratio is at least 1,
\* it is 1 for a colour against itself, and 21 for black against white.
C14_RatioRange ==
    (pairRatio # << >> /\ ObsInRange(pairFg) /\ ObsInRange(pairBg)) =>
        /\ pairRatio[1].num >= pairRatio[1].den
        /\ pairRatio[1].den > 0
        /\ pairFg = pairBg => pairRatio[1].num = pairRatio[1].den
        /\ {pairFg, pairBg} = {ObsBlack, ObsWhite} => pairRatio[1].num = 21 * pairRatio[1].den

\* White text on black: 21.
C14_Witness ==
    /\ pairRatio # << >>
    /\ pairFg = ObsWhite /\ pairBg = ObsBlack
    /\ pairRatio[1].num = 21 * pairRatio[1].den

\* The request passed the two checks of the url.
ObsUrlAccepted == Truthy(url) /\ UrlParses(url)

\* C15: the Firecrawl scrape is made only with an API key and before any
\* direct fetch; the direct fetch is made exactly when the key is missing or
\* the scrape failed; after a scrape that gave html there is no direct fetch
\* and the checks run on that html.
C15_FirecrawlFirst ==
    /\ scrape # "none" => hasKey
    /\ fetched => (~hasKey \/ scrape = "failed")
    /\ pc = "fetch" => (~hasKey \/ scrape = "failed")
    /\ (ObsUrlAccepted /\ pc \in {"parsed", "done"}) =>
            /\ hasKey => scrape # "none"
            /\ fetched <=> (~hasKey \/ scrape = "failed")
    /\ scrape = "html" =>
            /\ ~fetched
            /\ pc \in {"parsed", "done"}
            /\ htmlFrom = "firecrawl"
            /\ html # << >>
            /\ (pc = "done" /\ thrownBy(html[1]) = NoError) =>
                    results = <<runAccessibilityChecks(html[1])>>

\* A request answered from the html of a successful scrape, without a fetch.
C15_Witness ==
    /\ pc = "done"
    /\ hasKey
    /\ scrape = "html"
    /\ ~fetched
    /\ results # << >>
    /\ response[1].status = 200

\* C16: no list of the engine's result or of the report has an entry with id
\* table-caption, although the table check collects the tables without a
\* caption.
C16_NoTableCaption ==
    Checked =>
        \A list \in {Res.violations, Res.passes, Res.incomplete,
                     Rep.violations, Rep.passes, Rep.incomplete} :
            ~ObsHas(list, "table-caption")

\* A page with a table that has neither th cells nor a caption: the table
\* is collected for both, and only table-headers is reported.
C16_Witness ==
    /\ Checked
    /\ \E p \in 1..Len(Body) : Body[p].tag = "table" /\ ~Body[p].caption
    /\ Len(tablesWithoutCaption(TheDoc)) > 0
    /\ ObsHas(Rep.violations, "table-headers")

\* C17: the incomplete list is empty, in the engine's result and in the
\* report.
C17_IncompleteEmpty ==
    Checked => Res.incomplete = << >> /\ Rep.incomplete = << >>

\* A report with violations, an empty heading among them, and passes.
C17_Witness ==
    /\ Checked
    /\ ObsHas(Rep.violations, "empty-heading")
    /\ Len(Rep.passes) > 0
    /\ Rep.incomplete = << >>

\* The handler has called the engine on a page.
Evaluated == pc = "done" /\ html # << >>

\* The positions of the findings of a rule, none when the engine returned
\* nothing.
ObsFindings(id) == IF results = << >> THEN {} ELSE ObsNodeSet(Res.violations, id)

ObsInputType(e) == IF e.type = Null \/ e.type = "" THEN "text" ELSE e.type

ObsNeedsLabel(e) ==
    /\ e.tag \in {"input", "textarea", "select"}
    /\ ObsInputType(e) \notin {"hidden", "submit", "button", "reset", "image"}

\* Some label element has a for attribute equal to the id of e.
ObsLabelled(e) ==
    /\ e.id # Null
    /\ \E q \in 1..Len(Body) : Body[q].tag = "label" /\ Body[q].for = e.id

\* C18 (as claimed): on every page the engine is called on, an input,
\* textarea or select whose type is not hidden, submit, button, reset or
\* image has a label finding exactly when it has no non-empty aria-label, no
\* non-empty aria-labelledby, and no label element whose for equals its id.
C18_LabelFinding ==
    Evaluated =>
        \A p \in 1..Len(Body) :
            ObsNeedsLabel(Body[p]) =>
                (p \in ObsFindings("label") <=>
                    /\ Body[p].ariaLabel \in {Null, ""}
                    /\ Body[p].ariaLabelledby \in {Null, ""}
                    /\ ~ObsLabelled(Body[p]))

\* The four sources of a button's name, in the order of the claim: trimmed
\* text content, trimmed value, aria-label, title ("" for an absent one).
ObsButtonNames(e) ==
    << Trim(e.text),
       IF e.value = Null THEN "" ELSE Trim(e.value),
       IF e.ariaLabel = Null THEN "" ELSE e.ariaLabel,
       IF e.title = Null THEN "" ELSE e.title >>

\* The first non-empty of them, "" when all are empty.
ObsButtonName(e) ==
    LET names == ObsButtonNames(e)
        given == {k \in 1..4 : names[k] # ""}
    IN  IF given = {} THEN ""
        ELSE names[CHOOSE k \in given : \A m \in given : k <= m]

ObsIsButton(e) == e.tag = "button" \/ (e.tag = "input" /\ e.type \in {"button", "submit", "reset"})

\* C19: a button or an input of type button, submit or reset has a
\* button-name finding exactly when its trimmed text, trimmed value,
\* aria-label and title are all empty or absent (aria-labelledby does not
\* count); it has a button-text-quality finding exactly when the first
\* non-empty of the four, in that order, is one of the poor texts; it never
\* has both, and no other element has either.
C19_ButtonName ==
    Checked =>
        /\ \A p \in 1..Len(Body) :
              ObsIsButton(Body[p]) =>
                  /\ p \in ObsNodeSet(Res.violations, "button-name")
                        <=> ObsButtonName(Body[p]) = ""
                  /\ p \in ObsNodeSet(Res.violations, "button-text-quality")
                        <=> ToLowerCase(ObsButtonName(Body[p]))
                                \in {"click", "here", "more", "link", "button"}
                  /\ ~(/\ p \in ObsNodeSet(Res.violations, "button-name")
                        /\ p \in ObsNodeSet(Res.violations, "button-text-quality"))
        /\ \A p \in ObsNodeSet(Res.violations, "button-name")
                    \cup ObsNodeSet(Res.violations, "button-text-quality") :
              ObsIsButton(Body[p])

\* A button with aria-labelledby alone, which gets a button-name finding,
\* next to a button whose value "more" wins over its aria-label, which gets
\* a button-text-quality finding.
C19_Witness ==
    /\ Checked
    /\ \E p, q \in 1..Len(Body) :
          /\ Body[p].tag = "button" /\ Body[p].ariaLabelledby = "x"
          /\ ObsNodeSet(Res.violations, "button-name") = {p}
          /\ Body[q].value = "more" /\ Body[q].ariaLabel = "Close"
          /\ ObsNodeSet(Res.violations, "button-text-quality") = {q}

\* The accessible text of a link: the first non-empty of trimmed text,
\* aria-label and title, "" when there is none.
ObsLinkText(e) ==
    IF Trim(e.text) # "" THEN Trim(e.text)
    ELSE IF e.ariaLabel \notin {Null, ""} THEN e.ariaLabel
    ELSE IF e.title \notin {Null, ""} THEN e.title
    ELSE ""

\* The a[href] elements of the page that have an accessible text.
ObsNamedLinks == {p \in 1..Len(Body) : /\ Body[p].tag = "a" /\ Body[p].href # Null
                                        /\ ObsLinkText(Body[p]) # ""}

\* The first link that has the accessible text of link p.
ObsFirstWithText(p) ==
    CHOOSE q \in ObsNamedLinks :
        /\ ObsLinkText(Body[q]) = ObsLinkText(Body[p])
        /\ \A r \in ObsNamedLinks : ObsLinkText(Body[r]) = ObsLinkText(Body[p]) => q <= r

\* C20: after any number of iterations of the scan of the a[href] links, the
\* text-to-href map holds, for every accessible text seen so far, the href
\* of the first link with that text; the links collected as same-text
\* conflicts are the links whose text was seen before and whose href
\* differs from the href of the first link with that text, in document order.
C20_FirstHrefKept ==
    Checked =>
        LET l == links(TheDoc)
        IN  \A n \in 0..Len(l) :
                LET st       == linkScan(TheDoc, l, n)
                    scanned  == {l[i] : i \in 1..n} \cap ObsNamedLinks
                    conflict == {p \in scanned : /\ ObsFirstWithText(p) # p
                                                  /\ Body[p].href # Body[ObsFirstWithText(p)].href}
                IN  /\ DOMAIN st.linkTexts = {ObsLinkText(Body[p]) : p \in scanned}
                    /\ \A p \in scanned :
                          st.linkTexts[ObsLinkText(Body[p])] = Body[ObsFirstWithText(p)].href
                    /\ {st.linksWithSameText[k].node : k \in 1..Len(st.linksWithSameText)} = conflict
                    /\ Len(st.linksWithSameText) = Cardinality(conflict)
                    /\ \A j, k \in 1..Len(st.linksWithSameText) :
                          j < k => st.linksWithSameText[j].node < st.linksWithSameText[k].node

\* Three links with the text Docs, to /a, /b and /a: the second is collected,
\* the third, which differs from the one before it and not from the first,
\* is not, and the map keeps /a.
C20_Witness ==
    /\ Checked
    /\ Len(Body) = 3
    /\ \A p \in 1..3 : ObsLinkText(Body[p]) = "Docs"
    /\ Body[1].href = "/a" /\ Body[2].href = "/b" /\ Body[3].href = "/a"
    /\ Len(linksWithSameText(TheDoc)) = 1
    /\ linksWithSameText(TheDoc)[1].node = 2
    /\ linkTexts(TheDoc)["Docs"] = "/a"

\* The page that was evaluated, its styled element and the result.
ObsSample == sample[1]

ObsStyledAt == Len(ObsSample.body)

ObsStyled == ObsSample.body[ObsStyledAt]

ObsStyle == IF ObsStyled.style = Null THEN "" ELSE ObsStyled.style

ObsFlagged == ObsStyledAt \in ObsNodeSet(sampleResult[1].violations, "color-contrast")

\* The full engine returned a result for a page that has an element.
ObsSampled == sampleResult # << >> /\ ObsSample.body # << >>

\* The value of the declaration of prop that starts at position i of the
\* style s (white space, prop, white space, a colon, the value up to the
\* next semicolon), Null when no declaration of prop starts there.
ObsDeclAt(s, prop, i) ==
    LET n == SpaceEnd(s, i)
        c == SpaceEnd(s, n + Len(prop))
    IN  IF (i = 1 \/ Ch(s, i - 1) = ";") /\ StartsWithAt(s, prop, n) /\ StartsWithAt(s, ":", c)
        THEN Trim(SubSeq(s, c + 1, RunEnd(s, ";", c + 1) - 1))
        ELSE Null

\* The value the style s declares for the property prop (the last
\* declaration wins), Null when it declares none.
ObsDecl(s, prop) ==
    LET at == {i \in 1..Len(s) : ObsDeclAt(s, prop, i) # Null}
    IN  IF at = {} THEN Null
        ELSE ObsDeclAt(s, prop, CHOOSE i \in at : \A j \in at : j <= i)

\* The whole pixels of a length "<digits>px" or "<digits>.<digits>px",
\* -1 for any other value.
ObsPixels(v) ==
    LET d == DigitsEnd(v, 1)
        f == IF StartsWithAt(v, ".", d) THEN DigitsEnd(v, d + 1) ELSE d
    IN  IF d > 1 /\ (f = d \/ f > d + 1) /\ SubSeq(v, f, Len(v)) = "px"
        THEN ParseInt(SubSeq(v, 1, d - 1))
        ELSE -1

\* The inline font size, 14 without a font-size declaration.
ObsFontSize ==
    IF ObsDecl(ObsStyle, "font-size") = Null THEN 14
    ELSE ObsPixels(ObsDecl(ObsStyle, "font-size"))

ObsBold == ObsDecl(ObsStyle, "font-weight") = "bold"

\* The required ratio, in tenths.
ObsRequired == IF ObsFontSize >= 18 \/ (ObsFontSize >= 14 /\ ObsBold) THEN 30 ELSE 45

\* The styled element has text and the two colours the check extracted parse.
ObsBothParse ==
    /\ Truthy(trimmedText(ObsStyled))
    /\ colorMatch(ObsStyled) # Null /\ bgColorMatch(ObsStyled) # Null
    /\ parseColor(Trim(colorMatch(ObsStyled))) # NoColor
    /\ parseColor(Trim(bgColorMatch(ObsStyled))) # NoColor

ObsComputedRatio ==
    getContrastRatio(parseColor(Trim(colorMatch(ObsStyled))),
                     parseColor(Trim(bgColorMatch(ObsStyled))))

\* C21: for a text-bearing element whose colours both parse, the required
\* ratio is 3 when the inline font size is at least 18px, or at least 14px
\* with bold weight, and 4.5 otherwise (no font-size counts as 14px), and a
\* color-contrast finding is produced exactly when the computed ratio is
\* strictly below the required ratio.
C21_RequiredRatio ==
    (ObsSampled /\ ObsBothParse)
        => (ObsFlagged <=> RatioBelow(ObsComputedRatio, ObsRequired))
\* The styled element reaches the comparison of the ratio: it has text and
\* both patterns matched its style.
ObsEvaluated ==
    /\ Truthy(trimmedText(ObsStyled))
    /\ colorMatch(ObsStyled) # Null
    /\ bgColorMatch(ObsStyled) # Null

\* C22: a color-contrast finding is produced only for an element with
\* non-empty text whose inline style declares both color and
\* background-color, and the two colours that are compared are the value
\* of the color declaration and the value of the background-color
\* declaration; the background value is never taken as the text colour.
C22_DeclaredColors ==
    ObsSampled =>
        /\ ObsFlagged =>
              /\ Trim(ObsStyled.text) # ""
              /\ ObsDecl(ObsStyle, "color") # Null
              /\ ObsDecl(ObsStyle, "background-color") # Null
        /\ ObsEvaluated =>
              /\ Trim(colorMatch(ObsStyled)) = ObsDecl(ObsStyle, "color")
              /\ Trim(bgColorMatch(ObsStyled)) = ObsDecl(ObsStyle, "background-color")
\* The style declares prop with a value that parseColor does not accept.
ObsUnparsable(prop) ==
    /\ ObsDecl(ObsStyle, prop) # Null
    /\ parseColor(ObsDecl(ObsStyle, prop)) = NoColor

\* The page with the colours of the styled element taken away.
ObsWithoutColors == [ObsSample EXCEPT !.body[ObsStyledAt].style = Null]

\* The violations of the other rules.
ObsOtherRules(vs) ==
    LET other(v) == v.id # "color-contrast" IN SelectSeq(vs, other)

\* C23: when the color or the background-color value of the element is not
\* accepted by parseColor, no color-contrast finding is produced for it,
\* the evaluation does not abort, and the findings and passes of every
\* other rule are those of the same page without the colours.
C23_UnparsableSkipped ==
    (ObsSampled /\ (ObsUnparsable("color") \/ ObsUnparsable("background-color")))
        => /\ ~ObsFlagged
           /\ thrownBy(ObsSample) = NoError
           /\ ObsOtherRules(sampleResult[1].violations)
                  = ObsOtherRules(runAccessibilityChecks(ObsWithoutColors).violations)
           /\ sampleResult[1].passes = runAccessibilityChecks(ObsWithoutColors).passes
\* The h1 elements of the page and the k-th of them in document order.
ObsH1s == {p \in 1..Len(Body) : Body[p].tag = "h1"}

ObsH1(k) == CHOOSE p \in ObsH1s : Cardinality({q \in ObsH1s : q <= p}) = k

\* C24: with no h1 there is a page-has-heading-one violation with exactly
\* one finding and no multiple-h1 violation; with one h1 there is a
\* page-has-heading-one pass and neither violation; with k > 1 h1 elements
\* there is a multiple-h1 violation whose findings are the k-1 h1 elements
\* after the first, in document order, and neither a page-has-heading-one
\* violation nor a page-has-heading-one pass.
C24_HeadingOne ==
    Checked =>
        LET k     == Cardinality(ObsH1s)
            vs    == Res.violations
            found == ObsNodes(vs, "multiple-h1")
        IN  /\ k = 0 => /\ ObsHas(vs, "page-has-heading-one")
                        /\ Len(ObsNodes(vs, "page-has-heading-one")) = 1
                        /\ ~ObsHas(vs, "multiple-h1")
            /\ k = 1 => /\ ObsHas(Res.passes, "page-has-heading-one")
                        /\ ~ObsHas(vs, "page-has-heading-one")
                        /\ ~ObsHas(vs, "multiple-h1")
            /\ k > 1 => /\ ObsHas(vs, "multiple-h1")
                        /\ Len(found) = k - 1
                        /\ \A i \in 1..(k - 1) : found[i].node = ObsH1(i + 1)
                        /\ ~ObsHas(vs, "page-has-heading-one")
                        /\ ~ObsHas(Res.passes, "page-has-heading-one")

\* A checked page with three h1 elements, the last two of them flagged.
C24_Witness ==
    /\ Checked
    /\ Cardinality(ObsH1s) = 3
    /\ Len(ObsNodes(Res.violations, "multiple-h1")) = 2
\* C25 as stated: an html-has-lang violation is reported exactly when the
\* root element has no lang attribute, whatever the value of a present
\* attribute, and every report holds exactly one of the html-has-lang
\* violation and the html-has-lang pass.
C25_LangAttribute ==
    Checked =>
        /\ ObsHas(Rep.violations, "html-has-lang") <=> (TheDoc.lang = Null)
        /\ ObsHas(Rep.violations, "html-has-lang") # ObsHas(Rep.passes, "html-has-lang")

\* C25 amended: the violation is reported exactly when the root element has
\* no lang attribute or an empty one; a non-empty lang attribute, whatever
\* its value, gives no violation, and every report holds exactly one of the
\* html-has-lang violation and the html-has-lang pass.
C25_LangNonEmpty ==
    Checked =>
        /\ ObsHas(Rep.violations, "html-has-lang") <=> (TheDoc.lang \in {Null, ""})
        /\ ObsHas(Rep.violations, "html-has-lang") # ObsHas(Rep.passes, "html-has-lang")

\* A report on a page whose root has lang="": the violation, not the pass.
C25_Witness ==
    /\ Checked
    /\ TheDoc.lang = ""
    /\ ObsHas(Rep.violations, "html-has-lang")
    /\ ~ObsHas(Rep.passes, "html-has-lang")
\* The elements a rule's evaluator runs over.
ObsListed(rule, e) ==
    CASE rule = "image-alt" -> e.tag = "img"
      [] rule \in {"label", "placeholder-as-label"} -> e.tag \in {"input", "textarea", "select"}
      [] rule \in {"button-name", "button-text-quality"} -> ObsScans("button-name", e)
      [] rule \in {"link-name", "link-text-quality"} -> ObsScans("link-name", e)
      [] rule = "color-contrast" ->
            e.tag \in {"p", "h1", "h2", "h3", "h4", "h5", "h6", "span", "div", "a",
                       "button", "label", "li"}
      [] rule = "multiple-h1" -> e.tag = "h1"
      [] rule \in {"table-headers", "table-caption"} -> e.tag = "table"
      [] OTHER -> FALSE

\* The same, with the inputs that need no label left out of the label rules.
ObsRelevant(rule, e) ==
    IF rule \in {"label", "placeholder-as-label"} THEN ObsScans("label", e) ELSE ObsListed(rule, e)

\* C26 as stated: in every finding with a target tag:nth-child(k), k is the
\* 1-based position of the flagged element among the rule-relevant
\* elements; for label and placeholder-as-label these leave out the inputs
\* of type hidden, submit, button, reset and image.
C26_OrdinalAmongRelevant ==
    Checked =>
        \A i \in 1..Len(Res.violations) : \A j \in 1..Len(Res.violations[i].nodes) :
            LET n == Res.violations[i].nodes[j]
            IN  n.target.nth > 0 =>
                    n.target.nth = Cardinality({q \in 1..n.node :
                                                  ObsRelevant(Res.violations[i].id, Body[q])})

\* C26 amended: k is the 1-based position of the flagged element in the
\* list the rule's evaluator runs over; for label and placeholder-as-label
\* that list is every input, textarea and select, the inputs of type
\* hidden, submit, button, reset and image included.
C26_OrdinalInScannedList ==
    Checked =>
        \A i \in 1..Len(Res.violations) : \A j \in 1..Len(Res.violations[i].nodes) :
            LET n == Res.violations[i].nodes[j]
            IN  n.target.nth > 0 =>
                    n.target.nth = Cardinality({q \in 1..n.node :
                                                  ObsListed(Res.violations[i].id, Body[q])})

\* A label finding for an input that follows a hidden input: its ordinal is 2.
C26_Witness ==
    /\ Checked
    /\ Len(Body) = 2
    /\ Body[1].tag = "input" /\ Body[1].type = "hidden"
    /\ ObsHas(Res.violations, "label")
    /\ ObsNodes(Res.violations, "label")[1] = Node(2, "input", 2)
\* C27: the crawlMethod of a 200 report names the method that supplied the
\* html that was checked: "firecrawl" only when the Firecrawl scrape
\* returned the html, "direct-fetch" whenever the html came from the
\* fallback fetch, a failed Firecrawl attempt with a configured key included.
C27_CrawlMethodIsSource ==
    (pc = "done" /\ response[1].status = 200) => Rep.crawlMethod = htmlFrom
\* The elements a result flags for a rule, in the order of its findings.
ObsFlaggedBy(r, rule) ==
    [k \in 1..Len(ObsNodes(r.violations, rule)) |-> ObsNodes(r.violations, rule)[k].node]

ObsSharedRules == {"image-alt", "document-title", "html-has-lang", "heading-order"}

ObsSharedPasses == {"image-alt", "document-title", "html-has-lang"}

\* Both engines were run on the page and both returned.
ObsBothReturned == sampleResult # << >> /\ reducedResult # << >>

ObsBadUrl == requestBody = "object" /\ (url = Null \/ url = "" \/ ~UrlParses(url))

ObsNothingAttempted ==
    scrape = "none" /\ ~fetched /\ html = << >> /\ results = << >>

\* The handler can take a step: one of its first three parts is enabled, or
\* it is at the checks, which have no other condition.
ObsCanStep ==
    \/ ENABLED ValidateUrl
    \/ ENABLED Firecrawl
    \/ ENABLED DirectFetch
    \/ pc = "parsed"

C30_ErrorOrReport ==
    /\ ~(homeError # "" /\ homeReport # Null)
    /\ homePc # "awaiting" => ~homeLoading

====
